---- MODULE Spec2Model ----
(***************************************************************************)
(* A model of the DKP auction engine of comrade-bot                        *)
(* (src/comrade/plugins/dkp/auction.py): the bid validator, the result     *)
(* resolver, the timing rules of a RunningAuction and the Auctioneer with  *)
(* its per-channel operations.                                             *)
(*                                                                         *)
(* Conventions.  Optional[T] is a sequence of length at most one: None is  *)
(* <<>> and a present value x is <<x>>.  Times are whole seconds.  A       *)
(* Python set[Bid] is the sequence of its elements in the set's iteration  *)
(* order (no element twice); the order of a set is fixed as long as the    *)
(* set is not changed, and a new element may land at any place in it.      *)
(* Every Auctioneer method is a generator; an action models the call with  *)
(* its generator run to the end, and out holds the messages it yielded.    *)
(* The generators of run and next are also modelled yield by yield, as     *)
(* Auction._run_auction consumes them: tick holds the suspended generator. *)
(***************************************************************************)
EXTENDS Integers, Sequences, FiniteSets, TLC

VARIABLES
    _channels,       \* Auctioneer._channels: channel name -> Optional[RunningAuction]
    _pending_items,  \* Auctioneer._pending_items: list of AuctionItem
    _limits,         \* Auctioneer._limits: AuctionLimits (valuable, member, minimum, maximum)
    _dkp,            \* Auctioneer._dkp: bidder -> CharacterDKP
    now,             \* what datetime.datetime.utcnow() returns, in seconds
    out,             \* the AuctionMessages yielded by the last call
    args,            \* the arguments of the last direct call of a pure function
    ret,             \* and what it returned
    tick,            \* the generator (run or next) that Auction._run_auction has
                     \* suspended at a yield while it sends the message, if any
    closed_dkp,      \* history: per channel, the _dkp that run closed the auction
                     \* of the channel under, where a specification notes it
    updated_at       \* history: per channel, the time of the last update that run
                     \* has posted there, where a specification notes it

vars == <<_channels, _pending_items, _limits, _dkp, now, out, args, ret, tick, closed_dkp, updated_at>>

None == <<>>
Some(x) == <<x>>

Range(s) == {s[i] : i \in DOMAIN s}

-----------------------------------------------------------------------------
(* Bounds of the model.                                                    *)

\* The clock moves in steps of Step seconds, up to MaxTime.
Step == 90
MaxTime == 180
\* At most MaxPending items wait in the queue.
MaxPending == 1
\* At most MaxBids bids are held by one auction.
MaxBids == 2

\* The order of the configured channels (the dict order of _channels).
ChannelList == <<"c1", "c2", "c3">>
\* A channel name that is never configured.
NotAChannel == "lobby"

Bidders == {"ann", "bob"}

-----------------------------------------------------------------------------
(* Data types.                                                             *)

Status == {"Running", "Stopped", "Finished"}

BidderRank == {"Raider", "Alt", "Recruit", "Member"}

AuctionItem(item, quantity, added_by) ==
    [item |-> item, quantity |-> quantity, added_by |-> added_by]

Bid(bidder, rank, bid, id) ==
    [bidder |-> bidder, rank |-> rank, bid |-> bid, id |-> id]

AuctionResults(winners, tied, rolled) ==
    [winners |-> winners, tied |-> tied, rolled |-> rolled]

\* RunningAuction(item=item): the defaults of the attrs class.  oid is the
\* identity of the object: two auctions alive at once never share it.
RunningAuction(item, oid, t) ==
    [item |-> item, status |-> "Running", started_at |-> t, last_bid |-> None,
     last_updated |-> None, bids |-> <<>>, results |-> None, oid |-> oid]

AuctionMessage(channel, message, hidden) ==
    [channel |-> channel, message |-> message, hidden |-> hidden]

\* CharacterDKP(name=bidder), the default of dkp.get: no points.
CharacterDKP(name) == [name |-> name, current |-> 0]

DkpGet(dkp, bidder) ==
    IF bidder \in DOMAIN dkp THEN dkp[bidder] ELSE CharacterDKP(bidder)

-----------------------------------------------------------------------------
(* RunningAuction.time_left and RunningAuction.needs_update, with utcnow() *)
(* passed in as t.                                                         *)

\* time_left that returns end - now also when the end has passed.
time_left_unclamped(auction, t) ==
    LET end0 == auction.started_at + 90
        end1 == IF auction.last_bid # None /\ auction.last_bid[1] + 30 > end0
                THEN auction.last_bid[1] + 30
                ELSE end0
        end2 == IF /\ auction.last_updated # None
                   /\ (auction.last_bid = None
                       \/ auction.last_updated[1] > auction.last_bid[1])
                   /\ auction.last_updated[1] + 15 > end1
                THEN auction.last_updated[1] + 15
                ELSE end1
        end3 == IF /\ (auction.last_updated = None
                       \/ (auction.last_bid # None
                           /\ auction.last_updated[1] < auction.last_bid[1]))
                   /\ t + 15 > end2
                THEN t + 15
                ELSE end2
    IN  end3 - t

\* time_left without the 30 seconds after the last bid.
time_left_bid_rule_dropped(auction, t) ==
    LET end1 == auction.started_at + 90
        end2 == IF /\ auction.last_updated # None
                   /\ (auction.last_bid = None
                       \/ auction.last_updated[1] > auction.last_bid[1])
                   /\ auction.last_updated[1] + 15 > end1
                THEN auction.last_updated[1] + 15
                ELSE end1
        end3 == IF /\ (auction.last_updated = None
                       \/ (auction.last_bid # None
                           /\ auction.last_updated[1] < auction.last_bid[1]))
                   /\ t + 15 > end2
                THEN t + 15
                ELSE end2
    IN  IF end3 > t THEN end3 - t ELSE 0

\* time_left that counts the 15 seconds from now at every reading.
time_left_always_from_now(auction, t) ==
    LET end0 == auction.started_at + 90
        end1 == IF auction.last_bid # None /\ auction.last_bid[1] + 30 > end0
                THEN auction.last_bid[1] + 30
                ELSE end0
        end3 == IF t + 15 > end1 THEN t + 15 ELSE end1
    IN  IF end3 > t THEN end3 - t ELSE 0

time_left(auction, t) ==
    LET end0 == auction.started_at + 90
        end1 == IF auction.last_bid # None /\ auction.last_bid[1] + 30 > end0
                THEN auction.last_bid[1] + 30
                ELSE end0
        end2 == IF /\ auction.last_updated # None
                   /\ (auction.last_bid = None
                       \/ auction.last_updated[1] > auction.last_bid[1])
                   /\ auction.last_updated[1] + 15 > end1
                THEN auction.last_updated[1] + 15
                ELSE end1
        end3 == IF /\ (auction.last_updated = None
                       \/ (auction.last_bid # None
                           /\ auction.last_updated[1] < auction.last_bid[1]))
                   /\ t + 15 > end2
                THEN t + 15
                ELSE end2
    IN  IF end3 > t THEN end3 - t ELSE 0

\* needs_update that is content with exactly 30, 10 and 30 seconds.
needs_update_at_least(auction, t) ==
    IF auction.status # "Running"
    THEN FALSE
    ELSE /\ t - auction.started_at >= 30
         /\ (auction.last_bid = None \/ t - auction.last_bid[1] >= 10)
         /\ (auction.last_updated = None \/ t - auction.last_updated[1] >= 30)

\* needs_update that does not look at the last bid.
needs_update_bid_ignored(auction, t) ==
    IF auction.status # "Running"
    THEN FALSE
    ELSE /\ t - auction.started_at > 30
         /\ (auction.last_updated = None \/ t - auction.last_updated[1] > 30)

needs_update(auction, t) ==
    IF auction.status # "Running"
    THEN FALSE
    ELSE /\ t - auction.started_at > 30
         /\ (auction.last_bid = None \/ t - auction.last_bid[1] > 10)
         /\ (auction.last_updated = None \/ t - auction.last_updated[1] > 30)

-----------------------------------------------------------------------------
(* validate_bid: <<valid, error>>.                                         *)

\* validate_bid with the granularity rule applied from above the threshold only.
validate_bid_above_threshold(bidder, bid_amount, bids, dkp, valuable_threshold, minimum, maximum) ==
    LET bidder_dkp == DkpGet(dkp, bidder)
    IN  IF bid_amount > maximum
        THEN <<FALSE, <<"bids above maximum are not allowed", maximum>>>>
        ELSE IF bid_amount < minimum
        THEN <<FALSE, <<"bids below minimum are not allowed", minimum>>>>
        ELSE IF /\ bidder_dkp.current # bid_amount
                /\ bid_amount \notin {b.bid : b \in Range(bids)}
                /\ bid_amount > valuable_threshold
                /\ bid_amount % 5 # 0
        THEN <<FALSE, <<"bids above threshold must be in increments of 5",
                        valuable_threshold>>>>
        ELSE IF bid_amount > bidder_dkp.current
        THEN <<FALSE, <<"not enough dkp">>>>
        ELSE <<TRUE, <<"">>>>

\* validate_bid without the test against the minimum.
validate_bid_minimum_dropped(bidder, bid_amount, bids, dkp, valuable_threshold, minimum, maximum) ==
    LET bidder_dkp == DkpGet(dkp, bidder)
    IN  IF bid_amount > maximum
        THEN <<FALSE, <<"bids above maximum are not allowed", maximum>>>>
        ELSE IF /\ bidder_dkp.current # bid_amount
                /\ bid_amount \notin {b.bid : b \in Range(bids)}
                /\ bid_amount >= valuable_threshold
                /\ bid_amount % 5 # 0
        THEN <<FALSE, <<"bids above threshold must be in increments of 5",
                        valuable_threshold>>>>
        ELSE IF bid_amount > bidder_dkp.current
        THEN <<FALSE, <<"not enough dkp">>>>
        ELSE <<TRUE, <<"">>>>

validate_bid(bidder, bid_amount, bids, dkp, valuable_threshold, minimum, maximum) ==
    LET bidder_dkp == DkpGet(dkp, bidder)
    IN  IF bid_amount > maximum
        THEN <<FALSE, <<"bids above maximum are not allowed", maximum>>>>
        ELSE IF bid_amount < minimum
        THEN <<FALSE, <<"bids below minimum are not allowed", minimum>>>>
        ELSE IF /\ bidder_dkp.current # bid_amount
                /\ bid_amount \notin {b.bid : b \in Range(bids)}
                /\ bid_amount >= valuable_threshold
                /\ bid_amount % 5 # 0
        THEN <<FALSE, <<"bids above threshold must be in increments of 5",
                        valuable_threshold>>>>
        ELSE IF bid_amount > bidder_dkp.current
        THEN <<FALSE, <<"not enough dkp">>>>
        ELSE <<TRUE, <<"">>>>

-----------------------------------------------------------------------------
(* determine_results and its helpers.                                      *)

\* key_fn that puts the amount before the priority.
_bid_key_amount_first(dkp, member_treshold, bid) ==
    << bid.bid,
       IF bid.bid >= member_treshold /\ bid.rank = "Raider" THEN 1 ELSE 0,
       DkpGet(dkp, bid.bidder).current >>

\* key_fn of _bid_key(dkp, member_treshold)
_bid_key(dkp, member_treshold, bid) ==
    << IF bid.bid >= member_treshold /\ bid.rank = "Raider" THEN 1 ELSE 0,
       bid.bid,
       DkpGet(dkp, bid.bidder).current >>

\* Python's order of tuples: k1 > k2
KeyGreater(k1, k2) ==
    \/ k1[1] > k2[1]
    \/ k1[1] = k2[1] /\ k1[2] > k2[2]
    \/ k1[1] = k2[1] /\ k1[2] = k2[2] /\ k1[3] > k2[3]

\* sorted without reverse=True: ascending, stable.
RECURSIVE sorted_forward(_, _, _)
sorted_forward(bids, dkp, member_treshold) ==
    IF bids = <<>>
    THEN <<>>
    ELSE LET x == Head(bids)
             kx == _bid_key(dkp, member_treshold, x)
             rest == sorted_forward(Tail(bids), dkp, member_treshold)
             below == SelectSeq(rest,
                        LAMBDA y : KeyGreater(kx, _bid_key(dkp, member_treshold, y)))
             above == SelectSeq(rest,
                        LAMBDA y : ~KeyGreater(kx, _bid_key(dkp, member_treshold, y)))
         IN  below \o <<x>> \o above

\* sorted(bids, key=_bid_key(dkp, member_treshold), reverse=True): a stable
\* sort, so bids of equal key stay in the order they had in bids.
RECURSIVE sorted_reverse(_, _, _)
sorted_reverse(bids, dkp, member_treshold) ==
    IF bids = <<>>
    THEN <<>>
    ELSE LET x == Head(bids)
             kx == _bid_key(dkp, member_treshold, x)
             rest == sorted_reverse(Tail(bids), dkp, member_treshold)
             above == SelectSeq(rest,
                        LAMBDA y : KeyGreater(_bid_key(dkp, member_treshold, y), kx))
             below == SelectSeq(rest,
                        LAMBDA y : ~KeyGreater(_bid_key(dkp, member_treshold, y), kx))
         IN  above \o <<x>> \o below

RECURSIVE filter_seen(_, _)
filter_seen(bids, seen) ==
    IF bids = <<>>
    THEN <<>>
    ELSE LET bid == Head(bids)
             key == <<bid.bidder, bid.id>>
         IN  IF key \notin seen
             THEN <<bid>> \o filter_seen(Tail(bids), seen \cup {key})
             ELSE filter_seen(Tail(bids), seen)

_filter_bids(bids) == filter_seen(bids, {})

\* itertools.groupby(all_bids, key): the runs of consecutive bids of equal key.
RECURSIVE groupby(_, _, _)
groupby(all_bids, dkp, member_treshold) ==
    IF all_bids = <<>>
    THEN <<>>
    ELSE LET k == _bid_key(dkp, member_treshold, Head(all_bids))
             n == CHOOSE m \in 1..Len(all_bids) :
                    /\ \A i \in 1..m : _bid_key(dkp, member_treshold, all_bids[i]) = k
                    /\ (m = Len(all_bids)
                        \/ _bid_key(dkp, member_treshold, all_bids[m + 1]) # k)
         IN  <<SubSeq(all_bids, 1, n)>>
               \o groupby(SubSeq(all_bids, n + 1, Len(all_bids)), dkp, member_treshold)

\* award_groups that awards a group without lowering the need.
RECURSIVE award_groups_need_kept(_, _, _)
award_groups_need_kept(groups, need, winners) ==
    IF groups = <<>>
    THEN [need |-> need, winners |-> winners, tied |-> <<>>]
    ELSE LET bids == Head(groups)
         IN  IF Len(bids) <= need
             THEN award_groups_need_kept(Tail(groups), need, winners \o bids)
             ELSE [need |-> need, winners |-> winners, tied |-> bids]

\* award_groups that awards as much of a group too large as the need allows
\* and ties the rest of it.
RECURSIVE award_groups_splits_group(_, _, _)
award_groups_splits_group(groups, need, winners) ==
    IF groups = <<>>
    THEN [need |-> need, winners |-> winners, tied |-> <<>>]
    ELSE LET bids == Head(groups)
         IN  IF Len(bids) <= need
             THEN IF need - Len(bids) = 0
                  THEN [need |-> 0, winners |-> winners \o bids, tied |-> <<>>]
                  ELSE award_groups_splits_group(Tail(groups), need - Len(bids),
                                                 winners \o bids)
             ELSE [need |-> 0, winners |-> winners \o SubSeq(bids, 1, need),
                   tied |-> SubSeq(bids, need + 1, Len(bids))]

\* The for loop of determine_results over the groups: need, winners and tied
\* when the loop is left.
RECURSIVE award_groups(_, _, _)
award_groups(groups, need, winners) ==
    IF groups = <<>>
    THEN [need |-> need, winners |-> winners, tied |-> <<>>]
    ELSE LET bids == Head(groups)
         IN  IF Len(bids) <= need
             THEN IF need - Len(bids) = 0
                  THEN [need |-> 0, winners |-> winners \o bids, tied |-> <<>>]
                  ELSE award_groups(Tail(groups), need - Len(bids), winners \o bids)
             ELSE [need |-> need, winners |-> winners, tied |-> bids]

determine_results(auction, dkp, member_treshold) ==
    LET all_bids == _filter_bids(sorted_reverse(auction.bids, dkp, member_treshold))
        left == award_groups(groupby(all_bids, dkp, member_treshold),
                             auction.item.quantity, <<>>)
    IN  AuctionResults(left.winners, left.tied, IF left.need # 0 THEN left.need ELSE 0)

\* determine_results that stores what it computed in the auction.
determine_results_caches(auction, dkp, member_treshold) ==
    [auction EXCEPT !.results = Some(determine_results(auction, dkp, member_treshold))]

\* The auction as a call of determine_results leaves it: the function reads
\* auction.item and auction.bids and assigns nothing.
determine_results_leaves(auction, dkp, member_treshold) == auction

-----------------------------------------------------------------------------
(* The guards of the Auctioneer's operations.                              *)

\* check_auction_channels whose second message is not marked hidden.
check_auction_channels_public(channels, channel) ==
    IF channel \notin DOMAIN channels
    THEN <<AuctionMessage(channel, <<"This isn't an auction channel. Try Again.">>, TRUE)>>
    ELSE IF channels[channel] = None
    THEN <<AuctionMessage(channel, <<"There isn't an active auction in this channel.">>, FALSE)>>
    ELSE <<>>

\* check_auction_channels: the message yielded when the call is turned away,
\* <<>> when fn runs.
check_auction_channels(channels, channel) ==
    IF channel \notin DOMAIN channels
    THEN <<AuctionMessage(channel, <<"This isn't an auction channel. Try Again.">>, TRUE)>>
    ELSE IF channels[channel] = None
    THEN <<AuctionMessage(channel, <<"There isn't an active auction in this channel.">>, TRUE)>>
    ELSE <<>>

\* check_auction_status(statuses): statuses is the dict, as the sequence of its
\* <<status, message>> items; the message of the first status the auction is
\* in is yielded, <<>> when fn runs.
RECURSIVE check_auction_status(_, _, _)
check_auction_status(statuses, channels, channel) ==
    IF statuses = <<>>
    THEN <<>>
    ELSE IF channels[channel][1].status = Head(statuses)[1]
    THEN <<AuctionMessage(channel, <<Head(statuses)[2]>>, TRUE)>>
    ELSE check_auction_status(Tail(statuses), channels, channel)

\* @check_auction_channels over @check_auction_status(statuses)
Guards(statuses, channels, channel) ==
    IF check_auction_channels(channels, channel) # <<>>
    THEN check_auction_channels(channels, channel)
    ELSE check_auction_status(statuses, channels, channel)

\* BidStatuses without its Stopped entry.
BidStatusesFinishedOnly ==
    << <<"Finished", "This auction has already closed and is waiting on and officer to accept the results.">> >>

BidStatuses ==
    << <<"Finished", "This auction has already closed and is waiting on and officer to accept the results.">>,
       <<"Stopped", "This auction has been stopped and is not accepting bids at the moment.">> >>

\* StopStatuses without its Finished entry.
StopStatusesStoppedOnly ==
    << <<"Stopped", "This auction is already stopped.">> >>

StopStatuses ==
    << <<"Finished", "This auction has finished already and cannot be stopped.">>,
       <<"Stopped", "This auction is already stopped.">> >>

AcceptStatuses ==
    << <<"Running", "This auction has not finished and cannot be accepted yet.">>,
       <<"Stopped", "This auction has not finished and cannot be accepted yet.">> >>

ReopenStatuses ==
    << <<"Running", "This auction has not finished and cannot be reopened yet.">> >>

-----------------------------------------------------------------------------
(* Helpers of the operations.                                              *)

\* The chronological order of the keys of _channels.
ChannelOrder(channels) == SelectSeq(ChannelList, LAMBDA c : c \in DOMAIN channels)

\* The identity of the RunningAuction that is made for a channel: one that no
\* auction held by any channel has (the one the channel still holds included).
FreshOid(channels, channel) ==
    IF channels[channel] # None /\ channels[channel][1].oid = <<channel, 0>>
    THEN <<channel, 1>>
    ELSE <<channel, 0>>

\* auction.bids.add(bid): the orders the set may have afterwards.
SetAdd(bids, bid) ==
    IF bid \in Range(bids)
    THEN {bids}
    ELSE {SubSeq(bids, 1, i) \o <<bid>> \o SubSeq(bids, i + 1, Len(bids)) :
            i \in 0..Len(bids)}

RECURSIVE Flatten(_)
Flatten(seqs) == IF seqs = <<>> THEN <<>> ELSE Head(seqs) \o Flatten(Tail(seqs))

-----------------------------------------------------------------------------
(* The operations of the Auctioneer.                                       *)

add(item) ==
    /\ _pending_items' = Append(_pending_items, item)
    /\ out' = <<>>
    /\ UNCHANGED <<_channels, _limits, _dkp, now, args, ret, tick, closed_dkp, updated_at>>

update_dkp(dkp) ==
    /\ _dkp' = dkp
    /\ out' = <<>>
    /\ UNCHANGED <<_channels, _pending_items, _limits, now, args, ret, tick, closed_dkp, updated_at>>

\* run_channel that closes whatever has no time left, Running or not.
run_channel_any_status(channel, slot, dkp, limits, t) ==
    IF slot = None
    THEN [slot |-> slot, out |-> <<>>]
    ELSE LET auction == slot[1]
             closing == time_left(auction, t) = 0
             finished == [auction EXCEPT !.status = "Finished"]
             closed == IF closing
                       THEN [determine_results_leaves(finished, dkp, limits.member)
                               EXCEPT !.results =
                                 Some(determine_results(finished, dkp, limits.member))]
                       ELSE auction
             closed_out == IF closing
                           THEN <<AuctionMessage(channel,
                                    <<"Auction Closed. Results:", closed.results[1]>>, FALSE)>>
                           ELSE <<>>
             updating == needs_update(closed, t)
             stamped == [closed EXCEPT !.last_updated = Some(t)]
             updated == IF updating
                        THEN determine_results_leaves(stamped, dkp, limits.member)
                        ELSE closed
             updated_out == IF updating
                            THEN <<AuctionMessage(channel,
                                     <<"This is an update for", updated.item,
                                       time_left(updated, t),
                                       determine_results(stamped, dkp, limits.member)>>,
                                     FALSE)>>
                            ELSE <<>>
         IN  [slot |-> Some(updated), out |-> closed_out \o updated_out]

\* run_channel that decides on the update before it closes the auction.
run_channel_update_decided_first(channel, slot, dkp, limits, t) ==
    IF slot = None
    THEN [slot |-> slot, out |-> <<>>]
    ELSE LET auction == slot[1]
             closing == time_left(auction, t) = 0 /\ auction.status = "Running"
             finished == [auction EXCEPT !.status = "Finished"]
             closed == IF closing
                       THEN [determine_results_leaves(finished, dkp, limits.member)
                               EXCEPT !.results =
                                 Some(determine_results(finished, dkp, limits.member))]
                       ELSE auction
             closed_out == IF closing
                           THEN <<AuctionMessage(channel,
                                    <<"Auction Closed. Results:", closed.results[1]>>, FALSE)>>
                           ELSE <<>>
             updating == needs_update(auction, t)
             stamped == [closed EXCEPT !.last_updated = Some(t)]
             updated == IF updating
                        THEN determine_results_leaves(stamped, dkp, limits.member)
                        ELSE closed
             updated_out == IF updating
                            THEN <<AuctionMessage(channel,
                                     <<"This is an update for", updated.item,
                                       time_left(updated, t),
                                       determine_results(stamped, dkp, limits.member)>>,
                                     FALSE)>>
                            ELSE <<>>
         IN  [slot |-> Some(updated), out |-> closed_out \o updated_out]

\* One turn of the loop of run: the slot of the channel afterwards and the
\* messages yielded for it.
run_channel(channel, slot, dkp, limits, t) ==
    IF slot = None
    THEN [slot |-> slot, out |-> <<>>]
    ELSE LET auction == slot[1]
             closing == time_left(auction, t) = 0 /\ auction.status = "Running"
             finished == [auction EXCEPT !.status = "Finished"]
             closed == IF closing
                       THEN [determine_results_leaves(finished, dkp, limits.member)
                               EXCEPT !.results =
                                 Some(determine_results(finished, dkp, limits.member))]
                       ELSE auction
             closed_out == IF closing
                           THEN <<AuctionMessage(channel,
                                    <<"Auction Closed. Results:", closed.results[1]>>, FALSE)>>
                           ELSE <<>>
             updating == needs_update(closed, t)
             stamped == [closed EXCEPT !.last_updated = Some(t)]
             updated == IF updating
                        THEN determine_results_leaves(stamped, dkp, limits.member)
                        ELSE closed
             updated_out == IF updating
                            THEN <<AuctionMessage(channel,
                                     <<"This is an update for", updated.item,
                                       time_left(updated, t),
                                       determine_results(stamped, dkp, limits.member)>>,
                                     FALSE)>>
                            ELSE <<>>
         IN  [slot |-> Some(updated), out |-> closed_out \o updated_out]

run ==
    LET turn(c) == run_channel(c, _channels[c], _dkp, _limits, now)
        order == ChannelOrder(_channels)
    IN  /\ _channels' = [c \in DOMAIN _channels |-> turn(c).slot]
        /\ out' = Flatten([i \in DOMAIN order |-> turn(order[i]).out])
        /\ UNCHANGED <<_pending_items, _limits, _dkp, now, args, ret, tick, closed_dkp, updated_at>>

\* bid that adds the bid and leaves last_bid as it was.
bid_unstamped(channel, bidder, bid_amount, bid_id, rank) ==
    LET turned_away == Guards(BidStatuses, _channels, channel)
    IN  IF turned_away # <<>>
        THEN /\ out' = turned_away
             /\ UNCHANGED <<_channels, _pending_items, _limits, _dkp, now, args, ret, tick, closed_dkp, updated_at>>
        ELSE LET auction == _channels[channel][1]
                 valid == validate_bid(bidder, bid_amount, auction.bids, _dkp,
                                       _limits.valuable, _limits.minimum, _limits.maximum)
                 new == Bid(bidder, rank, bid_amount, bid_id)
             IN  IF ~valid[1]
                 THEN /\ out' = <<AuctionMessage(channel, valid[2], TRUE)>>
                      /\ UNCHANGED <<_channels, _pending_items, _limits, _dkp, now,
                                     args, ret, tick, closed_dkp, updated_at>>
                 ELSE /\ \E bids \in SetAdd(auction.bids, new) :
                            _channels' = [_channels EXCEPT ![channel] =
                                Some([auction EXCEPT !.bids = bids])]
                      /\ out' = <<AuctionMessage(channel, <<"Bid Accepted!">>, TRUE),
                                  AuctionMessage(channel, <<"has bid", new.bidder, new.bid>>,
                                                 FALSE)>>
                      /\ UNCHANGED <<_pending_items, _limits, _dkp, now, args, ret, tick, closed_dkp, updated_at>>

bid(channel, bidder, bid_amount, bid_id, rank) ==
    LET turned_away == Guards(BidStatuses, _channels, channel)
    IN  IF turned_away # <<>>
        THEN /\ out' = turned_away
             /\ UNCHANGED <<_channels, _pending_items, _limits, _dkp, now, args, ret, tick, closed_dkp, updated_at>>
        ELSE LET auction == _channels[channel][1]
                 valid == validate_bid(bidder, bid_amount, auction.bids, _dkp,
                                       _limits.valuable, _limits.minimum, _limits.maximum)
                 new == Bid(bidder, rank, bid_amount, bid_id)
             IN  IF ~valid[1]
                 THEN /\ out' = <<AuctionMessage(channel, valid[2], TRUE)>>
                      /\ UNCHANGED <<_channels, _pending_items, _limits, _dkp, now,
                                     args, ret, tick, closed_dkp, updated_at>>
                 ELSE /\ \E bids \in SetAdd(auction.bids, new) :
                            _channels' = [_channels EXCEPT ![channel] =
                                Some([auction EXCEPT !.bids = bids,
                                                     !.last_bid = Some(now)])]
                      /\ out' = <<AuctionMessage(channel, <<"Bid Accepted!">>, TRUE),
                                  AuctionMessage(channel, <<"has bid", new.bidder, new.bid>>,
                                                 FALSE)>>
                      /\ UNCHANGED <<_pending_items, _limits, _dkp, now, args, ret, tick, closed_dkp, updated_at>>

\* stop that stops the Running auction of every channel.
stop_every_channel(channel) ==
    LET turned_away == Guards(StopStatuses, _channels, channel)
    IN  IF turned_away # <<>>
        THEN /\ out' = turned_away
             /\ UNCHANGED <<_channels, _pending_items, _limits, _dkp, now, args, ret, tick, closed_dkp, updated_at>>
        ELSE LET auction == _channels[channel][1]
             IN  /\ _channels' = [c \in DOMAIN _channels |->
                        IF _channels[c] # None /\ _channels[c][1].status = "Running"
                        THEN Some([_channels[c][1] EXCEPT !.status = "Stopped"])
                        ELSE _channels[c]]
                 /\ out' = <<AuctionMessage(channel, <<"Auction has been stopped">>, TRUE),
                             AuctionMessage(channel,
                                <<"Auction for item has been stopped.", auction.item>>,
                                FALSE)>>
                 /\ UNCHANGED <<_pending_items, _limits, _dkp, now, args, ret, tick, closed_dkp, updated_at>>

stop(channel) ==
    LET turned_away == Guards(StopStatuses, _channels, channel)
    IN  IF turned_away # <<>>
        THEN /\ out' = turned_away
             /\ UNCHANGED <<_channels, _pending_items, _limits, _dkp, now, args, ret, tick, closed_dkp, updated_at>>
        ELSE LET auction == _channels[channel][1]
             IN  /\ _channels' = [_channels EXCEPT ![channel] =
                                    Some([auction EXCEPT !.status = "Stopped"])]
                 /\ out' = <<AuctionMessage(channel, <<"Auction has been stopped">>, TRUE),
                             AuctionMessage(channel,
                                <<"Auction for item has been stopped.", auction.item>>,
                                FALSE)>>
                 /\ UNCHANGED <<_pending_items, _limits, _dkp, now, args, ret, tick, closed_dkp, updated_at>>

\* accept that refuses changed results also when forced.
accept_force_ignored(channel, force) ==
    LET turned_away == Guards(AcceptStatuses, _channels, channel)
    IN  IF turned_away # <<>>
        THEN /\ out' = turned_away
             /\ UNCHANGED <<_channels, _pending_items, _limits, _dkp, now, args, ret, tick, closed_dkp, updated_at>>
        ELSE LET auction == _channels[channel][1]
                 results == determine_results(auction, _dkp, _limits.member)
                 after == determine_results_leaves(auction, _dkp, _limits.member)
             IN  /\ _channels' = [_channels EXCEPT ![channel] = Some(after)]
                 /\ out' = IF after.results # Some(results)
                           THEN <<AuctionMessage(channel,
                                    <<"This auction has not been accepted because the results have changed since it closed.">>,
                                    TRUE)>>
                           ELSE <<AuctionMessage(channel, <<"Auction Accepted">>, TRUE),
                                  AuctionMessage(channel, <<"Auction Accepted:", results>>,
                                                 FALSE)>>
                 /\ UNCHANGED <<_pending_items, _limits, _dkp, now, args, ret, tick, closed_dkp, updated_at>>

\* accept that computes the results anew without the balances.
accept_recomputes_without_dkp(channel, force) ==
    LET turned_away == Guards(AcceptStatuses, _channels, channel)
    IN  IF turned_away # <<>>
        THEN /\ out' = turned_away
             /\ UNCHANGED <<_channels, _pending_items, _limits, _dkp, now, args, ret, tick, closed_dkp, updated_at>>
        ELSE LET auction == _channels[channel][1]
                 results == determine_results(auction, <<>>, _limits.member)
                 after == determine_results_leaves(auction, <<>>, _limits.member)
             IN  /\ _channels' = [_channels EXCEPT ![channel] = Some(after)]
                 /\ out' = IF ~force /\ after.results # Some(results)
                           THEN <<AuctionMessage(channel,
                                    <<"This auction has not been accepted because the results have changed since it closed.">>,
                                    TRUE)>>
                           ELSE <<AuctionMessage(channel, <<"Auction Accepted">>, TRUE),
                                  AuctionMessage(channel, <<"Auction Accepted:", results>>,
                                                 FALSE)>>
                 /\ UNCHANGED <<_pending_items, _limits, _dkp, now, args, ret, tick, closed_dkp, updated_at>>

accept(channel, force) ==
    LET turned_away == Guards(AcceptStatuses, _channels, channel)
    IN  IF turned_away # <<>>
        THEN /\ out' = turned_away
             /\ UNCHANGED <<_channels, _pending_items, _limits, _dkp, now, args, ret, tick, closed_dkp, updated_at>>
        ELSE LET auction == _channels[channel][1]
                 results == determine_results(auction, _dkp, _limits.member)
                 after == determine_results_leaves(auction, _dkp, _limits.member)
             IN  /\ _channels' = [_channels EXCEPT ![channel] = Some(after)]
                 /\ out' = IF ~force /\ after.results # Some(results)
                           THEN <<AuctionMessage(channel,
                                    <<"This auction has not been accepted because the results have changed since it closed.">>,
                                    TRUE)>>
                           ELSE <<AuctionMessage(channel, <<"Auction Accepted">>, TRUE),
                                  AuctionMessage(channel, <<"Auction Accepted:", results>>,
                                                 FALSE)>>
                 /\ UNCHANGED <<_pending_items, _limits, _dkp, now, args, ret, tick, closed_dkp, updated_at>>

\* reopen that leaves started_at as it was.
reopen_keeps_start(channel) ==
    LET turned_away == Guards(ReopenStatuses, _channels, channel)
    IN  IF turned_away # <<>>
        THEN /\ out' = turned_away
             /\ UNCHANGED <<_channels, _pending_items, _limits, _dkp, now, args, ret, tick, closed_dkp, updated_at>>
        ELSE LET auction == _channels[channel][1]
                 reopened == [auction EXCEPT !.results = None,
                                             !.last_updated = None,
                                             !.last_bid = None,
                                             !.status = "Running"]
             IN  /\ _channels' = [_channels EXCEPT ![channel] = Some(reopened)]
                 /\ out' = <<AuctionMessage(channel, <<"Reopening Bidding">>, TRUE),
                             AuctionMessage(channel,
                                <<"Reopening Bids for", reopened.item,
                                  time_left(reopened, now)>>, FALSE)>>
                 /\ UNCHANGED <<_pending_items, _limits, _dkp, now, args, ret, tick, closed_dkp, updated_at>>

\* reopen that leaves the cached results in place.
reopen_keeps_results(channel) ==
    LET turned_away == Guards(ReopenStatuses, _channels, channel)
    IN  IF turned_away # <<>>
        THEN /\ out' = turned_away
             /\ UNCHANGED <<_channels, _pending_items, _limits, _dkp, now, args, ret, tick, closed_dkp, updated_at>>
        ELSE LET auction == _channels[channel][1]
                 reopened == [auction EXCEPT !.started_at = now,
                                             !.last_updated = None,
                                             !.last_bid = None,
                                             !.status = "Running"]
             IN  /\ _channels' = [_channels EXCEPT ![channel] = Some(reopened)]
                 /\ out' = <<AuctionMessage(channel, <<"Reopening Bidding">>, TRUE),
                             AuctionMessage(channel,
                                <<"Reopening Bids for", reopened.item,
                                  time_left(reopened, now)>>, FALSE)>>
                 /\ UNCHANGED <<_pending_items, _limits, _dkp, now, args, ret, tick, closed_dkp, updated_at>>

reopen(channel) ==
    LET turned_away == Guards(ReopenStatuses, _channels, channel)
    IN  IF turned_away # <<>>
        THEN /\ out' = turned_away
             /\ UNCHANGED <<_channels, _pending_items, _limits, _dkp, now, args, ret, tick, closed_dkp, updated_at>>
        ELSE LET auction == _channels[channel][1]
                 reopened == [auction EXCEPT !.results = None,
                                             !.started_at = now,
                                             !.last_updated = None,
                                             !.last_bid = None,
                                             !.status = "Running"]
             IN  /\ _channels' = [_channels EXCEPT ![channel] = Some(reopened)]
                 /\ out' = <<AuctionMessage(channel, <<"Reopening Bidding">>, TRUE),
                             AuctionMessage(channel,
                                <<"Reopening Bids for", reopened.item,
                                  time_left(reopened, now)>>, FALSE)>>
                 /\ UNCHANGED <<_pending_items, _limits, _dkp, now, args, ret, tick, closed_dkp, updated_at>>

\* restart that hands the bids of the old auction to the new one.
restart_keeps_bids(channel) ==
    LET turned_away == check_auction_channels(_channels, channel)
    IN  IF turned_away # <<>>
        THEN /\ out' = turned_away
             /\ UNCHANGED <<_channels, _pending_items, _limits, _dkp, now, args, ret, tick, closed_dkp, updated_at>>
        ELSE LET item == _channels[channel][1].item
                 auction == [RunningAuction(item, FreshOid(_channels, channel), now)
                               EXCEPT !.bids = _channels[channel][1].bids]
             IN  /\ _channels' = [_channels EXCEPT ![channel] = Some(auction)]
                 /\ out' = <<AuctionMessage(channel, <<"Restarted Auction">>, TRUE),
                             AuctionMessage(channel,
                                <<"Restarting Bids for", item, time_left(auction, now)>>,
                                FALSE)>>
                 /\ UNCHANGED <<_pending_items, _limits, _dkp, now, args, ret, tick, closed_dkp, updated_at>>

restart(channel) ==
    LET turned_away == check_auction_channels(_channels, channel)
    IN  IF turned_away # <<>>
        THEN /\ out' = turned_away
             /\ UNCHANGED <<_channels, _pending_items, _limits, _dkp, now, args, ret, tick, closed_dkp, updated_at>>
        ELSE LET item == _channels[channel][1].item
                 auction == RunningAuction(item, FreshOid(_channels, channel), now)
             IN  /\ _channels' = [_channels EXCEPT ![channel] = Some(auction)]
                 /\ out' = <<AuctionMessage(channel, <<"Restarted Auction">>, TRUE),
                             AuctionMessage(channel,
                                <<"Restarting Bids for", item, time_left(auction, now)>>,
                                FALSE)>>
                 /\ UNCHANGED <<_pending_items, _limits, _dkp, now, args, ret, tick, closed_dkp, updated_at>>

\* delete that leaves a Finished auction in its channel.
delete_keeps_finished(channel) ==
    LET turned_away == check_auction_channels(_channels, channel)
    IN  IF turned_away # <<>>
        THEN /\ out' = turned_away
             /\ UNCHANGED <<_channels, _pending_items, _limits, _dkp, now, args, ret, tick, closed_dkp, updated_at>>
        ELSE LET auction == _channels[channel][1]
             IN  /\ _channels' = IF auction.status = "Finished"
                                 THEN _channels
                                 ELSE [_channels EXCEPT ![channel] = None]
                 /\ out' = <<AuctionMessage(channel, <<"Auction Deleted">>, TRUE),
                             AuctionMessage(channel,
                                <<"Auction for item has been deleted.", auction.item>>,
                                FALSE)>>
                 /\ UNCHANGED <<_pending_items, _limits, _dkp, now, args, ret, tick, closed_dkp, updated_at>>

delete(channel) ==
    LET turned_away == check_auction_channels(_channels, channel)
    IN  IF turned_away # <<>>
        THEN /\ out' = turned_away
             /\ UNCHANGED <<_channels, _pending_items, _limits, _dkp, now, args, ret, tick, closed_dkp, updated_at>>
        ELSE LET auction == _channels[channel][1]
             IN  /\ _channels' = [_channels EXCEPT ![channel] = None]
                 /\ out' = <<AuctionMessage(channel, <<"Auction Deleted">>, TRUE),
                             AuctionMessage(channel,
                                <<"Auction for item has been deleted.", auction.item>>,
                                FALSE)>>
                 /\ UNCHANGED <<_pending_items, _limits, _dkp, now, args, ret, tick, closed_dkp, updated_at>>

\* next_loop that leaves the loop after the first item.
RECURSIVE next_loop_one_item(_, _, _, _)
next_loop_one_item(channels, pending, msgs, t) ==
    LET free == {c \in DOMAIN channels : channels[c] = None}
    IN  IF pending # <<>> /\ free # {} /\ msgs = <<>>
        THEN UNION { LET item == Head(pending)
                         auction == RunningAuction(item, FreshOid(channels, channel), t)
                     IN  next_loop_one_item([channels EXCEPT ![channel] = Some(auction)],
                                   Tail(pending),
                                   Append(msgs, AuctionMessage(channel,
                                       <<"Starting Bid for", item, time_left(auction, t)>>,
                                       FALSE)),
                                   t)
                     : channel \in free }
        ELSE {[channels |-> channels, pending |-> pending, out |-> msgs]}

\* next_loop that pops the item added last.
RECURSIVE next_loop_pop_last(_, _, _, _)
next_loop_pop_last(channels, pending, msgs, t) ==
    LET free == {c \in DOMAIN channels : channels[c] = None}
    IN  IF pending # <<>> /\ free # {}
        THEN UNION { LET item == pending[Len(pending)]
                         auction == RunningAuction(item, FreshOid(channels, channel), t)
                     IN  next_loop_pop_last([channels EXCEPT ![channel] = Some(auction)],
                                   SubSeq(pending, 1, Len(pending) - 1),
                                   Append(msgs, AuctionMessage(channel,
                                       <<"Starting Bid for", item, time_left(auction, t)>>,
                                       FALSE)),
                                   t)
                     : channel \in free }
        ELSE {[channels |-> channels, pending |-> pending, out |-> msgs]}

\* The while loop of next from the state (channels, pending) with msgs yielded
\* so far: every way random.choice may go.
RECURSIVE next_loop(_, _, _, _)
next_loop(channels, pending, msgs, t) ==
    LET free == {c \in DOMAIN channels : channels[c] = None}
    IN  IF pending # <<>> /\ free # {}
        THEN UNION { LET item == Head(pending)
                         auction == RunningAuction(item, FreshOid(channels, channel), t)
                     IN  next_loop([channels EXCEPT ![channel] = Some(auction)],
                                   Tail(pending),
                                   Append(msgs, AuctionMessage(channel,
                                       <<"Starting Bid for", item, time_left(auction, t)>>,
                                       FALSE)),
                                   t)
                     : channel \in free }
        ELSE {[channels |-> channels, pending |-> pending, out |-> msgs]}

next ==
    \E end \in next_loop(_channels, _pending_items, <<>>, now) :
        /\ _channels' = end.channels
        /\ _pending_items' = end.pending
        /\ out' = end.out
        /\ UNCHANGED <<_limits, _dkp, now, args, ret, tick, closed_dkp, updated_at>>

\* Time passes between two calls.
AdvanceClock ==
    /\ now + Step <= MaxTime
    /\ now' = now + Step
    /\ UNCHANGED <<_channels, _pending_items, _limits, _dkp, out, args, ret, tick, closed_dkp, updated_at>>

-----------------------------------------------------------------------------
(* The Auctioneer driven by its callers.                                   *)

\* Auctioneer.__init__(channels=channels, limits=limits)
Auctioneer(channels, limits) ==
    /\ _pending_items = <<>>
    /\ _channels = [c \in channels |-> None]
    /\ _limits = limits
    /\ _dkp = <<>>
    /\ now = 0
    /\ out = <<>>
    /\ tick = None
    /\ closed_dkp = [c \in channels |-> None]
    /\ updated_at = [c \in channels |-> None]

AuctionLimits(valuable, member, minimum, maximum) ==
    [valuable |-> valuable, member |-> member, minimum |-> minimum, maximum |-> maximum]

Limits == AuctionLimits(10, 10, 5, 20)

Items == {AuctionItem("sword", 1, "officer")}

BidAmounts == {5, 10}
BidIds == {0}
BidRanks == {"Raider"}

\* The snapshots get_dkp may return: some of the bidders, each with a balance.
DkpSnapshots ==
    { [b \in {"ann", "bob"} |-> [name |-> b, current |-> 10]],
      [b \in {"ann"} |-> [name |-> b, current |-> 5]] }

\* The channels the calls of the front end come from: an auction channel and
\* a channel that is none.  Any other auction channel is filled by next and
\* driven by run alone.
CallChannels == {"c1", NotAChannel}

InBound(channel) ==
    IF channel \notin DOMAIN _channels \/ _channels[channel] = None
    THEN TRUE
    ELSE Len(_channels[channel][1].bids) < MaxBids

\* Any call of the Auctioneer, or time passing, with the callers' inputs drawn
\* from the given sets.
Calls(bidders, amounts, snapshots) ==
    \/ \E item \in Items : Len(_pending_items) < MaxPending /\ add(item)
    \/ \E dkp \in snapshots : update_dkp(dkp)
    \/ run
    \/ next
    \/ \E channel \in CallChannels, bidder \in bidders, bid_amount \in amounts,
          bid_id \in BidIds, rank \in BidRanks :
            InBound(channel) /\ bid(channel, bidder, bid_amount, bid_id, rank)
    \/ \E channel \in CallChannels : stop(channel)
    \/ \E channel \in CallChannels, force \in BOOLEAN : accept(channel, force)
    \/ \E channel \in CallChannels : reopen(channel)
    \/ \E channel \in CallChannels : restart(channel)
    \/ \E channel \in CallChannels : delete(channel)
    \/ AdvanceClock

\* One auction channel, two bidders.
Init == Auctioneer({"c1"}, Limits) /\ args = None /\ ret = None

Next == Calls(Bidders, BidAmounts, DkpSnapshots)

Spec == Init /\ [][Next]_vars

\* Two auction channels, one bidder: the calls of the front end come from c1,
\* while c2 holds what next puts there.
InitChannels == Auctioneer({"c1", "c2"}, Limits) /\ args = None /\ ret = None

NextChannels ==
    Calls({"ann"}, {10}, {[b \in {"ann"} |-> [name |-> b, current |-> 10]]})

SpecChannels == InitChannels /\ [][NextChannels]_vars

-----------------------------------------------------------------------------
(* Properties of the Auctioneer.                                           *)

\* C1: every auction held in a channel has cached results exactly when its
\* status is Finished.
C1_ResultsIffFinished ==
    \A c \in DOMAIN _channels :
        _channels[c] # None =>
            (_channels[c][1].results # None <=> _channels[c][1].status = "Finished")

\* An auction with a bid has been closed by run and holds its results.
C1_Witness ==
    \E c \in DOMAIN _channels :
        /\ _channels[c] # None
        /\ _channels[c][1].status = "Finished"
        /\ _channels[c][1].results # None
        /\ _channels[c][1].results[1].winners # <<>>

C3_ForbiddenStatus ==
    [][\A c \in DOMAIN _channels :
         _channels[c] # None =>
            LET status == _channels[c][1].status
                turned_away == /\ Len(out') = 1
                               /\ out'[1].hidden
                               /\ out'[1].channel = c
                               /\ UNCHANGED <<_channels, _pending_items>>
            IN  /\ (/\ status \in {"Finished", "Stopped"}
                    /\ \/ stop(c)
                       \/ \E bidder \in Bidders, bid_amount \in BidAmounts,
                             bid_id \in BidIds, rank \in BidRanks :
                               bid(c, bidder, bid_amount, bid_id, rank))
                   => turned_away
                /\ (status \in {"Running", "Stopped"} /\ \E force \in BOOLEAN : accept(c, force))
                   => turned_away
                /\ (status = "Running" /\ reopen(c)) => turned_away
      ]_vars

\* A bid has been turned away by a Stopped auction that holds a bid, while
\* the other channel holds an auction too.
C3_Witness ==
    \E c, d \in DOMAIN _channels :
        /\ c # d /\ _channels[c] # None /\ _channels[d] # None
        /\ _channels[c][1].status = "Stopped"
        /\ _channels[c][1].bids # <<>>
        /\ out = <<AuctionMessage(c,
                     <<"This auction has been stopped and is not accepting bids at the moment.">>,
                     TRUE)>>

\* C4: bid, stop, accept, reopen, restart or delete called with a name that is
\* no auction channel, or on a channel whose slot is empty, yields exactly one
\* hidden message and leaves the whole state of the Auctioneer as it was.
C4_NoAuctionThere ==
    [][\A c \in CallChannels :
         (/\ IF c \in DOMAIN _channels THEN _channels[c] = None ELSE TRUE
          /\ \/ stop(c) \/ reopen(c) \/ restart(c) \/ delete(c)
             \/ \E force \in BOOLEAN : accept(c, force)
             \/ \E bidder \in Bidders, bid_amount \in BidAmounts,
                   bid_id \in BidIds, rank \in BidRanks :
                     bid(c, bidder, bid_amount, bid_id, rank))
         => /\ Len(out') = 1
            /\ out'[1].hidden
            /\ out'[1].channel = c
            /\ UNCHANGED <<_channels, _pending_items, _limits, _dkp>>
      ]_vars

\* A call has been turned away by an empty channel while the other channel
\* holds an auction and an item waits in the queue.
C4_Witness ==
    \E c, d \in DOMAIN _channels :
        /\ c # d /\ _channels[c] = None /\ _channels[d] # None
        /\ _pending_items # <<>>
        /\ out = <<AuctionMessage(c, <<"There isn't an active auction in this channel.">>,
                                  TRUE)>>

\* C5: bid on a Running auction: when validate_bid rejects, exactly one hidden
\* message with the reason is yielded and the auction (its bids and last_bid)
\* is unchanged; when it accepts, the Bid is added to the bid set, last_bid is
\* now, and a hidden acknowledgement and then a public announcement are
\* yielded.
C5_BidOnRunning ==
    [][\A c \in DOMAIN _channels, bidder \in Bidders, bid_amount \in BidAmounts,
          bid_id \in BidIds, rank \in BidRanks :
         (/\ _channels[c] # None
          /\ _channels[c][1].status = "Running"
          /\ bid(c, bidder, bid_amount, bid_id, rank))
         => LET auction == _channels[c][1]
                valid == validate_bid(bidder, bid_amount, auction.bids, _dkp,
                                      _limits.valuable, _limits.minimum, _limits.maximum)
            IN  IF ~valid[1]
                THEN /\ out' = <<AuctionMessage(c, valid[2], TRUE)>>
                     /\ UNCHANGED _channels
                ELSE /\ Range(_channels'[c][1].bids) =
                          Range(auction.bids) \cup {Bid(bidder, rank, bid_amount, bid_id)}
                     /\ _channels'[c][1].last_bid = Some(now)
                     /\ _channels'[c][1] =
                          [auction EXCEPT !.bids = _channels'[c][1].bids,
                                          !.last_bid = Some(now)]
                     /\ Len(out') = 2
                     /\ out'[1] = AuctionMessage(c, <<"Bid Accepted!">>, TRUE)
                     /\ out'[2] = AuctionMessage(c, <<"has bid", bidder, bid_amount>>, FALSE)
      ]_vars

\* A second bid has been accepted some time after the auction started.
C5_Witness ==
    \E c \in DOMAIN _channels :
        /\ _channels[c] # None
        /\ Len(_channels[c][1].bids) = 2
        /\ _channels[c][1].last_bid = Some(now)
        /\ _channels[c][1].started_at < now
        /\ Len(out) = 2 /\ out[1].message = <<"Bid Accepted!">>

\* C9, as stated: of the accepted bids of one bidder with one id, the one
\* submitted last is the one determine_results counts (among winners and
\* tied), whatever the amounts of the earlier ones.
C9_MostRecentLive ==
    [][\A c \in DOMAIN _channels :
         (/\ _channels[c] # None /\ _channels'[c] # None
          /\ _channels[c][1].oid = _channels'[c][1].oid) =>
            \A new \in Range(_channels'[c][1].bids) \ Range(_channels[c][1].bids) :
                LET results == determine_results(_channels'[c][1], _dkp', _limits'.member)
                    counted == results.winners \o results.tied
                IN  \A i \in DOMAIN counted :
                        (counted[i].bidder = new.bidder /\ counted[i].id = new.id)
                            => counted[i] = new
      ]_vars

\* C9, amended: of the accepted bids of one bidder with one id, which all stay
\* in the bid set, determine_results counts at most one, and it is one of
\* highest priority key (priority, amount, balance): a later, lower bid does
\* not replace an earlier, higher one.
C9_HighestLive ==
    \A c \in DOMAIN _channels :
        _channels[c] # None =>
            LET auction == _channels[c][1]
                results == determine_results(auction, _dkp, _limits.member)
                counted == results.winners \o results.tied
            IN  /\ \A i, j \in DOMAIN counted :
                        (/\ counted[i].bidder = counted[j].bidder
                         /\ counted[i].id = counted[j].id) => i = j
                /\ \A i \in DOMAIN counted : counted[i] \in Range(auction.bids)
                /\ \A i \in DOMAIN counted, b \in Range(auction.bids) :
                        (b.bidder = counted[i].bidder /\ b.id = counted[i].id)
                            => ~KeyGreater(_bid_key(_dkp, _limits.member, b),
                                           _bid_key(_dkp, _limits.member, counted[i]))

\* An auction with two bids of one bidder under one id has been closed, and
\* the higher of the two is the winner.
C9_Witness ==
    \E c \in DOMAIN _channels :
        /\ _channels[c] # None
        /\ _channels[c][1].results # None
        /\ \E b1, b2 \in Range(_channels[c][1].bids) :
              /\ b1.bidder = b2.bidder /\ b1.id = b2.id /\ b1.bid < b2.bid
              /\ _channels[c][1].results[1].winners = <<b2>>

-----------------------------------------------------------------------------
(* validate_bid called directly, on arguments drawn from bounded sets.     *)

\* Bid amounts and balances run over 0..MaxAmount.
MaxAmount == 12

\* The bids already made, as far as validate_bid reads them: their amounts.
ValidateBids ==
    { <<>>,
      <<Bid("bob", "Raider", 7, 0)>>,
      <<Bid("bob", "Alt", 11, 0)>>,
      <<Bid("bob", "Raider", 7, 0), Bid("cat", "Member", 11, 0)>> }

ValidateDkps ==
    {<<>>} \cup {[b \in {"ann"} |-> [name |-> b, current |-> c]] : c \in 0..MaxAmount}

ValidateArgs ==
    [bidder : {"ann"}, bid_amount : 0..MaxAmount, bids : ValidateBids,
     dkp : ValidateDkps, valuable_threshold : {6, 10}, minimum : {0, 3},
     maximum : {9, 11}]

InitValidate ==
    /\ Auctioneer({}, Limits)
    /\ args \in {Some(a) : a \in ValidateArgs}
    /\ ret = None

CallValidate ==
    /\ args # None /\ ret = None
    /\ ret' = Some(validate_bid(args[1].bidder, args[1].bid_amount, args[1].bids,
                                args[1].dkp, args[1].valuable_threshold,
                                args[1].minimum, args[1].maximum))
    /\ UNCHANGED <<_channels, _pending_items, _limits, _dkp, now, out, args, tick, closed_dkp, updated_at>>

SpecValidate == InitValidate /\ [][CallValidate]_vars

\* C6: validate_bid accepts exactly when minimum <= amount <= maximum, the
\* amount is at most the bidder's balance, and the amount is the whole balance
\* (all-in), or the amount of a bid already made (echo), or below the valuable
\* threshold, or a multiple of 5; and a rejection gives the reason of the
\* first rule that fails, in the order above maximum, below minimum,
\* increments of 5, not enough points.
C6_ValidateAccepts ==
    ret # None =>
        LET a == args[1]
            amount == a.bid_amount
            balance == DkpGet(a.dkp, a.bidder).current
            all_in == amount = balance
            echo == \E i \in DOMAIN a.bids : a.bids[i].bid = amount
            above == amount > a.maximum
            below == amount < a.minimum
            increments == /\ ~all_in /\ ~echo
                          /\ amount >= a.valuable_threshold /\ amount % 5 # 0
            points == amount > balance
            valid == ret[1][1]
            error == ret[1][2][1]
        IN  /\ valid <=> /\ a.minimum <= amount /\ amount <= a.maximum
                         /\ amount <= balance
                         /\ (all_in \/ echo \/ amount < a.valuable_threshold
                             \/ amount % 5 = 0)
            /\ ~valid =>
                 error = IF above THEN "bids above maximum are not allowed"
                         ELSE IF below THEN "bids below minimum are not allowed"
                         ELSE IF increments
                         THEN "bids above threshold must be in increments of 5"
                         ELSE "not enough dkp"
            /\ (all_in /\ ~above /\ ~below) => valid
            /\ (echo /\ ~above /\ ~below /\ ~points) => valid
            /\ increments /\ ~above /\ ~below => ~valid

\* An all-in bid that is not a multiple of 5, at or above the valuable
\* threshold, has been validated and accepted.
C6_Witness ==
    /\ ret # None /\ ret[1][1]
    /\ args[1].bid_amount = 7 /\ args[1].valuable_threshold = 6
    /\ DkpGet(args[1].dkp, "ann").current = 7
    /\ args[1].bids = <<>>

-----------------------------------------------------------------------------
(* determine_results called directly, on arguments drawn from bounded sets. *)

\* The auction passed in holds at most MaxResolveBids bids.
MaxResolveBids == 3

ResolveBids ==
    {Bid(who[1], rank, amount, who[2]) :
        who \in {<<"ann", 0>>, <<"ann", 1>>, <<"bob", 0>>},
        rank \in {"Raider", "Alt"}, amount \in {80, 100}}

\* The sets of at most n elements of S, each in every iteration order.
SetsInOrder(S, n) ==
    UNION {{s \in [1..k -> S] : \A i, j \in 1..k : i # j => s[i] # s[j]} : k \in 0..n}

ResolveDkps ==
    { [b \in {"ann", "bob"} |-> [name |-> b, current |-> 100]],
      [b \in {"ann", "bob"} |-> [name |-> b, current |-> IF b = "ann" THEN 200 ELSE 100]],
      [b \in {"bob"} |-> [name |-> b, current |-> 100]] }

ResolveArgs ==
    [auction : {[RunningAuction(AuctionItem("sword", q, "officer"), <<"c1", 0>>, 0)
                   EXCEPT !.bids = bids] :
                   q \in 1..3, bids \in SetsInOrder(ResolveBids, MaxResolveBids)},
     dkp : ResolveDkps,
     member_treshold : {0, 90}]

InitResolve ==
    /\ Auctioneer({}, Limits)
    /\ args \in {Some(a) : a \in ResolveArgs}
    /\ ret = None

CallResolve ==
    /\ args # None /\ ret = None
    /\ ret' = Some([results |-> determine_results(args[1].auction, args[1].dkp,
                                                  args[1].member_treshold),
                    auction |-> determine_results_leaves(args[1].auction, args[1].dkp,
                                                         args[1].member_treshold)])
    /\ UNCHANGED <<_channels, _pending_items, _limits, _dkp, now, out, args, tick, closed_dkp, updated_at>>

SpecResolve == InitResolve /\ [][CallResolve]_vars

\* C7, as stated: count(winners) + rolled + (count(tied) if allocation stopped
\* at a tied group) equals item.quantity for every output of determine_results.
C7_CountsWithTied ==
    ret # None =>
        LET r == ret[1].results
        IN  Len(r.winners) + r.rolled + (IF r.tied # <<>> THEN Len(r.tied) ELSE 0)
              = args[1].auction.item.quantity

\* C7, amended: when allocation did not stop at a tied group, count(winners)
\* + rolled equals item.quantity; when it did, the tied group is larger than
\* the need that was left, so count(winners) is below item.quantity and
\* count(winners) + count(tied) is above it.
C7_Counts ==
    ret # None =>
        LET r == ret[1].results
            quantity == args[1].auction.item.quantity
        IN  IF r.tied = <<>>
            THEN Len(r.winners) + r.rolled = quantity
            ELSE /\ Len(r.winners) < quantity
                 /\ Len(r.winners) + Len(r.tied) > quantity

\* determine_results has stopped at a tied group after awarding a winner.
C7_Witness ==
    /\ ret # None
    /\ ret[1].results.tied # <<>>
    /\ ret[1].results.winners # <<>>
    /\ args[1].auction.item.quantity = 2

\* C8: whenever determine_results stops at a tied group, rolled is 0 (quantity
\* 1 and two equal top bids of two Raiders at or above the member threshold
\* give tied = both, winners empty, rolled = 0).
C8_TiedRolledZero ==
    ret # None => (ret[1].results.tied # <<>> => ret[1].results.rolled = 0)

\* determine_results has been given quantity 1 and the equal bids of two
\* Raiders of equal balance at the member threshold or above: both are tied,
\* nobody has won, and rolled is 1.
C8_Witness ==
    /\ ret # None
    /\ args[1].auction.item.quantity = 1
    /\ args[1].member_treshold = 90
    /\ Range(args[1].auction.bids) =
          {Bid("ann", "Raider", 100, 0), Bid("bob", "Raider", 100, 0)}
    /\ ret[1].results.winners = <<>>
    /\ Range(ret[1].results.tied) = Range(args[1].auction.bids)
    /\ ret[1].results.rolled = 1

-----------------------------------------------------------------------------
(* time_left read again and again, at later and later times, on an auction *)
(* whose timestamps are drawn from bounded sets and stay as they are.      *)

\* Timestamps and clock readings are the multiples of 5 up to MaxClock.
MaxClock == 120

ClockPoints == {t \in 0..MaxClock : t % 5 = 0}

TimeLeftArgs ==
    {[RunningAuction(AuctionItem("sword", 1, "officer"), <<"c1", 0>>, started_at)
        EXCEPT !.last_bid = last_bid, !.last_updated = last_updated] :
        started_at \in {0, 30},
        last_bid \in {None} \cup {Some(t) : t \in ClockPoints},
        last_updated \in {None} \cup {Some(t) : t \in ClockPoints}}

InitTimeLeft ==
    /\ Auctioneer({}, Limits)
    /\ args \in {Some(a) : a \in TimeLeftArgs}
    /\ ret = None

\* auction.time_left, read at a time t that is later than the reading before.
CallTimeLeft ==
    /\ args # None
    /\ \E t \in ClockPoints :
          /\ IF ret = None THEN t >= now ELSE t > now
          /\ now' = t
          /\ ret' = Some(time_left(args[1], t))
    /\ UNCHANGED <<_channels, _pending_items, _limits, _dkp, out, args, tick, closed_dkp, updated_at>>

SpecTimeLeft == InitTimeLeft /\ [][CallTimeLeft]_vars

\* C11: with started_at, last_bid and last_updated fixed, time_left is never
\* negative, and a reading at a later time is never above an earlier reading.
C11_TimeLeftNonIncreasing ==
    [][ret' # None =>
         /\ ret'[1] >= 0
         /\ ret # None => ret'[1] <= ret[1]
      ]_vars

\* time_left has been read, after the 90 seconds and the 30 seconds after the
\* last bid, on an auction whose last update is older than its last bid: what
\* is left are the 15 seconds from now.
C11_Witness ==
    /\ ret = Some(15)
    /\ args # None
    /\ args[1].last_bid # None /\ args[1].last_updated # None
    /\ args[1].last_updated[1] < args[1].last_bid[1]
    /\ now > args[1].started_at + 90
    /\ now > args[1].last_bid[1] + 30

-----------------------------------------------------------------------------
(* Properties of run and next.                                             *)

\* In every step, a last_updated stamp that run newly puts on an auction is
\* later than the stamp of every bid the auction holds (needs_update asks for
\* more than 10 seconds since the last bid): so when last_updated and last_bid
\* are the same reading of the clock, the bid was accepted after the update.
UpdateStampAfterBidStamp ==
    [][\A c \in DOMAIN _channels :
         (/\ _channels[c] # None /\ _channels'[c] # None
          /\ _channels[c][1].oid = _channels'[c][1].oid
          /\ _channels'[c][1].last_updated # _channels[c][1].last_updated
          /\ _channels'[c][1].last_updated # None)
         => /\ run
            /\ _channels'[c][1].last_bid = _channels[c][1].last_bid
            /\ (_channels[c][1].last_bid = None
                \/ _channels[c][1].last_bid[1] < _channels'[c][1].last_updated[1])
      ]_vars

\* C12: whenever run closes an auction, an update has been stamped on it since
\* it was started, restarted or reopened, and no bid has been accepted after
\* that update: last_updated is there and every bid was stamped before it.
C12_UpdatePrecedesClosing ==
    [][\A c \in DOMAIN _channels :
         (/\ _channels[c] # None /\ _channels'[c] # None
          /\ _channels[c][1].oid = _channels'[c][1].oid
          /\ _channels[c][1].status = "Running"
          /\ _channels'[c][1].status = "Finished")
         => LET auction == _channels[c][1]
            IN  /\ auction.last_updated # None
                /\ (auction.last_bid = None
                    \/ auction.last_bid[1] < auction.last_updated[1])
      ]_vars

\* An auction has been closed whose last bid was accepted at the clock reading
\* of its last update, after that update, and has won.
C12_Witness ==
    \E c \in DOMAIN _channels :
        /\ _channels[c] # None
        /\ _channels[c][1].status = "Finished"
        /\ _channels[c][1].last_updated # None
        /\ _channels[c][1].last_bid = _channels[c][1].last_updated
        /\ Len(_channels[c][1].bids) = 1
        /\ _channels[c][1].results[1].winners = _channels[c][1].bids
        /\ Len(out) = 1 /\ out[1].message[1] = "Auction Closed. Results:"

\* The messages of msgs that are for the channel.
MessagesFor(msgs, channel) == SelectSeq(msgs, LAMBDA m : m.channel = channel)

\* The messages of msgs whose text starts with head.
MessagesSaying(msgs, head) == SelectSeq(msgs, LAMBDA m : m.message[1] = head)

\* C13: run, on a channel whose auction is Running with time_left 0, sets the
\* status to Finished, caches determine_results(auction, _dkp, _limits.member)
\* and yields exactly one message for that channel, the public closing message
\* with these results; for an auction that is not Running or has time left,
\* a Finished one above all, run yields no closing message.
C13_RunCloses ==
    [][run =>
         \A c \in DOMAIN _channels :
            _channels[c] # None =>
               LET auction == _channels[c][1]
                   results == determine_results(auction, _dkp, _limits.member)
               IN  IF auction.status = "Running" /\ time_left(auction, now) = 0
                   THEN /\ _channels'[c] # None
                        /\ _channels'[c][1] = [auction EXCEPT !.status = "Finished",
                                                              !.results = Some(results)]
                        /\ MessagesFor(out', c) =
                             <<AuctionMessage(c, <<"Auction Closed. Results:", results>>,
                                              FALSE)>>
                   ELSE /\ MessagesSaying(MessagesFor(out', c), "Auction Closed. Results:")
                             = <<>>
                        /\ _channels'[c] # None
                        /\ _channels'[c][1].status = auction.status
                        /\ _channels'[c][1].results = auction.results
      ]_vars

\* run has closed the auctions of two channels in one call: one closing
\* message for each, and a winner in the first channel.
C13_Witness ==
    /\ Len(out) = 2
    /\ out[1].channel # out[2].channel
    /\ \A i \in 1..2 :
          /\ out[i].message[1] = "Auction Closed. Results:"
          /\ ~out[i].hidden
          /\ out[i].channel \in DOMAIN _channels
          /\ _channels[out[i].channel] # None
          /\ _channels[out[i].channel][1].status = "Finished"
          /\ _channels[out[i].channel][1].results = Some(out[i].message[2])
    /\ out[1].message[2].winners # <<>>

\* C14: in one call of run, an auction that is closed in that call gets no
\* update message and no last_updated stamp; for an auction that is Stopped or
\* Finished nothing is yielded and nothing changes; an empty channel stays
\* empty and nothing is yielded for it.
C14_RunFrame ==
    [][run =>
         \A c \in DOMAIN _channels :
            IF _channels[c] = None
            THEN _channels'[c] = None /\ MessagesFor(out', c) = <<>>
            ELSE LET auction == _channels[c][1]
                 IN  /\ auction.status \in {"Stopped", "Finished"} =>
                          /\ _channels'[c] = _channels[c]
                          /\ MessagesFor(out', c) = <<>>
                     /\ (auction.status = "Running" /\ time_left(auction, now) = 0) =>
                          /\ _channels'[c] # None
                          /\ _channels'[c][1].last_updated = auction.last_updated
                          /\ MessagesSaying(MessagesFor(out', c), "This is an update for")
                               = <<>>
      ]_vars

\* run has closed the auction of one channel, whose last update is 90 seconds
\* old, while the other channel holds a Stopped auction with a bid, and has
\* yielded the closing message alone.
C14_Witness ==
    \E c, d \in DOMAIN _channels :
        /\ c # d /\ _channels[c] # None /\ _channels[d] # None
        /\ _channels[c][1].status = "Stopped"
        /\ _channels[c][1].bids # <<>>
        /\ _channels[d][1].status = "Finished"
        /\ _channels[d][1].last_updated = Some(now - 90)
        /\ out = <<AuctionMessage(d, <<"Auction Closed. Results:",
                                       _channels[d][1].results[1]>>, FALSE)>>

-----------------------------------------------------------------------------
(* The queue of pending items: add, next and delete on an Auctioneer with  *)
(* no, one, two or three channels.                                         *)

\* At most MaxQueue items wait in the queue.
MaxQueue == 3

QueueItems == {AuctionItem(item, 1, "officer") : item \in {"sword", "shield", "helm"}}

QueueChannels == {{}, {"c1"}, {"c1", "c2"}, {"c1", "c2", "c3"}}

InitQueue ==
    /\ \E channels \in QueueChannels : Auctioneer(channels, Limits)
    /\ args = None /\ ret = None

NextQueue ==
    \/ \E item \in QueueItems : Len(_pending_items) < MaxQueue /\ add(item)
    \/ next
    \/ \E channel \in DOMAIN _channels : delete(channel)

SpecQueue == InitQueue /\ [][NextQueue]_vars

Min(a, b) == IF a <= b THEN a ELSE b

\* C15: next, from p pending items and e empty channels, occupies exactly
\* min(p, e) of the empty channels, each with a fresh Running auction without
\* bids, leaves p - min(p, e) items in the queue, yields exactly min(p, e)
\* public start messages, and ends with the queue empty or no channel empty;
\* it ends whatever the number of channels, zero included.
C15_NextFills ==
    [][next =>
         LET p == Len(_pending_items)
             empty == {c \in DOMAIN _channels : _channels[c] = None}
             m == Min(p, Cardinality(empty))
             filled == {c \in empty : _channels'[c] # None}
         IN  /\ DOMAIN _channels' = DOMAIN _channels
             /\ Cardinality(filled) = m
             /\ \A c \in filled :
                   \E item \in Range(_pending_items), oid \in {<<c, 0>>, <<c, 1>>} :
                       _channels'[c] = Some(RunningAuction(item, oid, now))
             /\ \A c \in DOMAIN _channels \ filled : _channels'[c] = _channels[c]
             /\ Len(_pending_items') = p - m
             /\ Len(out') = m
             /\ \A i \in DOMAIN out' :
                   ~out'[i].hidden /\ out'[i].message[1] = "Starting Bid for"
             /\ (_pending_items' = <<>>
                 \/ \A c \in DOMAIN _channels' : _channels'[c] # None)
      ]_vars

\* next has started two items in two of three channels: one channel is still
\* empty and the queue is empty.
C15_Witness ==
    /\ DOMAIN _channels = {"c1", "c2", "c3"}
    /\ Cardinality({c \in DOMAIN _channels : _channels[c] # None}) = 2
    /\ _pending_items = <<>>
    /\ Len(out) = 2
    /\ \A i \in 1..2 : out[i].message[1] = "Starting Bid for"
    /\ out[1].channel # out[2].channel

\* C16: add puts the item at the end of the queue and touches no channel;
\* next takes the items from the front of the queue in their order, one start
\* message each, puts each in a channel that was empty and that no other item
\* of the call was put in, keeps the rest of the queue in its order and every
\* auction there was where it was.
C16_Fifo ==
    [][/\ \A item \in QueueItems :
            add(item) => /\ _pending_items' = Append(_pending_items, item)
                         /\ _channels' = _channels
       /\ next =>
            LET k == Len(out')
            IN  /\ k <= Len(_pending_items)
                /\ _pending_items' = SubSeq(_pending_items, k + 1, Len(_pending_items))
                /\ \A i \in 1..k :
                      /\ out'[i].message[2] = _pending_items[i]
                      /\ out'[i].channel \in DOMAIN _channels
                      /\ _channels[out'[i].channel] = None
                      /\ _channels'[out'[i].channel] # None
                      /\ _channels'[out'[i].channel][1].item = _pending_items[i]
                      /\ \A j \in 1..k : out'[j].channel = out'[i].channel => j = i
                /\ \A c \in DOMAIN _channels :
                      c \notin {out'[i].channel : i \in 1..k} => _channels'[c] = _channels[c]
      ]_vars

\* next has started the older of three different waiting items in the one
\* channel that was empty, beside two auctions that were there; the two
\* younger items wait in their order.
C16_Witness ==
    /\ DOMAIN _channels = {"c1", "c2", "c3"}
    /\ \A c \in DOMAIN _channels : _channels[c] # None
    /\ Len(_pending_items) = 2
    /\ Len(out) = 1 /\ out[1].message[1] = "Starting Bid for"
    /\ Cardinality({out[1].message[2]} \cup Range(_pending_items)) = 3
    /\ _channels[out[1].channel][1].item = out[1].message[2]

-----------------------------------------------------------------------------
(* Properties of accept, reopen, restart and delete.                       *)

\* C17: accept on a Finished auction computes the results anew from the
\* balances held now; unforced and with results that differ from the cached
\* ones it yields one hidden refusal, otherwise a hidden and then a public
\* acceptance with the new results; either way every auction, the queue and
\* the balances stay as they were.
C17_AcceptChecksResults ==
    [][\A c \in DOMAIN _channels, force \in BOOLEAN :
         (/\ _channels[c] # None
          /\ _channels[c][1].status = "Finished"
          /\ accept(c, force))
         => LET auction == _channels[c][1]
                results == determine_results(auction, _dkp, _limits.member)
            IN  /\ UNCHANGED <<_channels, _pending_items, _dkp, _limits>>
                /\ out' = IF ~force /\ auction.results # Some(results)
                          THEN <<AuctionMessage(c,
                                   <<"This auction has not been accepted because the results have changed since it closed.">>,
                                   TRUE)>>
                          ELSE <<AuctionMessage(c, <<"Auction Accepted">>, TRUE),
                                 AuctionMessage(c, <<"Auction Accepted:", results>>, FALSE)>>
      ]_vars

\* A forced accept has gone through on an auction that was closed as a tie
\* and that the balances held now give to one bidder: the winner is announced
\* and the cached results still hold the tie.
C17_Witness ==
    \E c \in DOMAIN _channels :
        /\ _channels[c] # None
        /\ _channels[c][1].status = "Finished"
        /\ Len(_channels[c][1].results[1].tied) = 2
        /\ Len(out) = 2
        /\ out[2].message[1] = "Auction Accepted:"
        /\ out[2].message[2] = determine_results(_channels[c][1], _dkp, _limits.member)
        /\ Len(out[2].message[2].winners) = 1

\* C18: reopen on a Stopped or Finished auction sets the status to Running,
\* clears results, last_bid and last_updated and sets started_at to now, and
\* leaves the bids, the item and everything else as they were; the reopened
\* auction has time left at every second before now + 90, and no auction is
\* closed by run before its started_at + 90.
C18_ReopenResets ==
    [][\A c \in DOMAIN _channels :
         _channels[c] # None =>
            LET auction == _channels[c][1]
            IN  /\ (auction.status \in {"Stopped", "Finished"} /\ reopen(c))
                   => /\ _channels' = [_channels EXCEPT ![c] =
                            Some([item |-> auction.item, bids |-> auction.bids,
                                  oid |-> auction.oid, status |-> "Running",
                                  started_at |-> now, last_bid |-> None,
                                  last_updated |-> None, results |-> None])]
                      /\ \A t \in now..(now + 89) : time_left(_channels'[c][1], t) > 0
                      /\ time_left(_channels'[c][1], now) = 90
                      /\ UNCHANGED <<_pending_items, _dkp, _limits>>
                /\ (/\ _channels'[c] # None
                    /\ _channels'[c][1].oid = auction.oid
                    /\ auction.status = "Running"
                    /\ _channels'[c][1].status = "Finished")
                   => now >= auction.started_at + 90
      ]_vars

\* An auction that was reopened with its bids is Running 90 seconds after the
\* reopen, and run has just posted its first update since.
C18_Witness ==
    \E c \in DOMAIN _channels :
        /\ _channels[c] # None
        /\ _channels[c][1].status = "Running"
        /\ _channels[c][1].bids # <<>>
        /\ _channels[c][1].last_bid = None
        /\ _channels[c][1].started_at > 0
        /\ now = _channels[c][1].started_at + 90
        /\ _channels[c][1].last_updated = Some(now)
        /\ Len(out) = 1 /\ out[1].message[1] = "This is an update for"

\* C19: restart on an occupied channel, whatever the status of its auction,
\* puts a new auction for the same item in the channel: Running, without bids,
\* started now, without last_bid, last_updated and results; the other
\* channels, the queue and the balances are untouched.
C19_RestartReplaces ==
    [][\A c \in DOMAIN _channels :
         (_channels[c] # None /\ restart(c))
         => LET auction == _channels[c][1]
            IN  /\ _channels'[c] # None
                /\ _channels'[c][1].oid # auction.oid
                /\ _channels' = [_channels EXCEPT ![c] =
                      Some([item |-> auction.item, bids |-> <<>>,
                            oid |-> _channels'[c][1].oid, status |-> "Running",
                            started_at |-> now, last_bid |-> None,
                            last_updated |-> None, results |-> None])]
                /\ UNCHANGED <<_pending_items, _dkp, _limits>>
                /\ Len(out') = 2
                /\ out'[1] = AuctionMessage(c, <<"Restarted Auction">>, TRUE)
                /\ ~out'[2].hidden
      ]_vars

\* An auction has been restarted some time after it was started, while an
\* item waits in the queue: the new auction holds no bid and the item still
\* waits.
C19_Witness ==
    \E c \in DOMAIN _channels :
        /\ _channels[c] # None
        /\ _channels[c][1].oid = <<c, 1>>
        /\ _channels[c][1].started_at = now /\ now > 0
        /\ _channels[c][1].bids = <<>>
        /\ _pending_items # <<>>
        /\ Len(out) = 2 /\ out[1].message = <<"Restarted Auction">>

\* C20: an empty channel becomes occupied only in a call of next; an occupied
\* channel becomes empty only in a call of delete on it, and delete on an
\* occupied channel empties it whatever the status of its auction; the set of
\* channels never changes.
C20_Occupancy ==
    [][/\ DOMAIN _channels' = DOMAIN _channels
       /\ \A c \in DOMAIN _channels :
            /\ (_channels[c] = None /\ _channels'[c] # None) => next
            /\ (_channels[c] # None /\ _channels'[c] = None) => delete(c)
            /\ (_channels[c] # None /\ delete(c)) => _channels'[c] = None
      ]_vars

\* A Finished auction has been accepted and is still in its channel, beside
\* a channel that is empty while nothing waits in the queue.
C20_Witness ==
    \E c, d \in DOMAIN _channels :
        /\ _channels[c] # None
        /\ _channels[c][1].status = "Finished"
        /\ out = <<AuctionMessage(c, <<"Auction Accepted">>, TRUE),
                   AuctionMessage(c, <<"Auction Accepted:", _channels[c][1].results[1]>>,
                                  FALSE)>>
        /\ _channels[d] = None
        /\ _pending_items = <<>>

-----------------------------------------------------------------------------
(* Properties across channels and across calls.                            *)

\* C21: bid, stop, accept, reopen, restart and delete, carried out or turned
\* away, yield messages for the channel of the call only and leave the slot of
\* every other channel, the queue, the balances and the limits as they were.
C21_CallStaysInChannel ==
    [][\A c \in CallChannels \cup DOMAIN _channels :
         (\/ stop(c) \/ reopen(c) \/ restart(c) \/ delete(c)
          \/ \E force \in BOOLEAN : accept(c, force)
          \/ \E bidder \in Bidders, bid_amount \in BidAmounts,
                bid_id \in BidIds, rank \in BidRanks :
                  bid(c, bidder, bid_amount, bid_id, rank))
         => /\ out' # <<>>
            /\ \A i \in DOMAIN out' : out'[i].channel = c
            /\ DOMAIN _channels' = DOMAIN _channels
            /\ \A d \in DOMAIN _channels \ {c} : _channels'[d] = _channels[d]
            /\ UNCHANGED <<_pending_items, _dkp, _limits>>
      ]_vars

\* An auction has been stopped while the other channel holds a Running
\* auction that has had its first update, and an item waits in the queue.
C21_Witness ==
    \E c, d \in DOMAIN _channels :
        /\ c # d /\ _channels[c] # None /\ _channels[d] # None
        /\ _channels[c][1].status = "Stopped"
        /\ _channels[d][1].status = "Running"
        /\ _channels[d][1].last_updated # None
        /\ _pending_items # <<>>
        /\ Len(out) = 2
        /\ out[1] = AuctionMessage(c, <<"Auction has been stopped">>, TRUE)
        /\ out[2].channel = c

-----------------------------------------------------------------------------
(* run and next as Auction._run_auction consumes them: the generator runs  *)
(* up to a yield, the task awaits the sending of the message, and the      *)
(* handlers of the slash commands run while it waits.  The frame of the    *)
(* suspended generator is held in tick: for run the channel it is at, the  *)
(* identity of the auction it took from the slot, the yield it stands at   *)
(* and the channels it has still to visit.                                 *)

\* The loop of run over the channels in todo, up to its next yield or its end.
RECURSIVE run_to_yield(_, _, _, _, _)
RECURSIVE run_update_to_yield(_, _, _, _, _, _)
run_to_yield(channels, todo, dkp, limits, t) ==
    IF todo = <<>>
    THEN [channels |-> channels, out |-> <<>>, tick |-> None]
    ELSE LET channel == Head(todo)
         IN  IF channels[channel] = None
             THEN run_to_yield(channels, Tail(todo), dkp, limits, t)
             ELSE LET auction == channels[channel][1]
                      finished == [auction EXCEPT !.status = "Finished"]
                      closed == [finished EXCEPT !.results =
                                    Some(determine_results(finished, dkp, limits.member))]
                  IN  IF time_left(auction, t) = 0 /\ auction.status = "Running"
                      THEN [channels |-> [channels EXCEPT ![channel] = Some(closed)],
                            out |-> <<AuctionMessage(channel,
                                        <<"Auction Closed. Results:", closed.results[1]>>,
                                        FALSE)>>,
                            tick |-> Some([fn |-> "run", at |-> channel,
                                           oid |-> auction.oid, stage |-> "closed",
                                           todo |-> Tail(todo)])]
                      ELSE run_update_to_yield(channels, channel, Tail(todo), dkp, limits, t)

\* The second test of the loop body of run, for the auction that the loop took
\* from the slot of the channel and that the slot still holds, and the loop
\* from there on.
run_update_to_yield(channels, channel, todo, dkp, limits, t) ==
    LET auction == channels[channel][1]
        stamped == [auction EXCEPT !.last_updated = Some(t)]
    IN  IF needs_update(auction, t)
        THEN [channels |-> [channels EXCEPT ![channel] = Some(stamped)],
              out |-> <<AuctionMessage(channel,
                          <<"This is an update for", stamped.item, time_left(stamped, t),
                            determine_results(stamped, dkp, limits.member)>>,
                          FALSE)>>,
              tick |-> Some([fn |-> "run", at |-> channel, oid |-> auction.oid,
                             stage |-> "updated", todo |-> todo])]
        ELSE run_to_yield(channels, todo, dkp, limits, t)

\* run resumed after the yield that frame stands at.  An auction that the slot
\* no longer holds is Finished and out of reach: it needs no update.
run_resumed(channels, frame, dkp, limits, t) ==
    IF /\ frame.stage = "closed"
       /\ channels[frame.at] # None
       /\ channels[frame.at][1].oid = frame.oid
    THEN run_update_to_yield(channels, frame.at, frame.todo, dkp, limits, t)
    ELSE run_to_yield(channels, frame.todo, dkp, limits, t)

\* One turn of the while loop of next, up to its yield, or the end of the loop.
next_to_yield ==
    LET free == {c \in DOMAIN _channels : _channels[c] = None}
    IN  IF _pending_items # <<>> /\ free # {}
        THEN \E channel \in free :
                LET item == Head(_pending_items)
                    auction == RunningAuction(item, FreshOid(_channels, channel), now)
                IN  /\ _pending_items' = Tail(_pending_items)
                    /\ _channels' = [_channels EXCEPT ![channel] = Some(auction)]
                    /\ out' = <<AuctionMessage(channel,
                                  <<"Starting Bid for", item, time_left(auction, now)>>,
                                  FALSE)>>
                    /\ tick' = Some([fn |-> "next"])
        ELSE /\ out' = <<>>
             /\ tick' = None
             /\ UNCHANGED <<_channels, _pending_items>>

\* for message in self.auctioneer.run(): the generator is started.
TickRun ==
    /\ tick = None
    /\ LET r == run_to_yield(_channels, ChannelOrder(_channels), _dkp, _limits, now)
       IN  _channels' = r.channels /\ out' = r.out /\ tick' = r.tick
    /\ UNCHANGED <<_pending_items, _limits, _dkp, now, args, ret, closed_dkp, updated_at>>

\* for message in self.auctioneer.next(): the generator is started.
TickNext ==
    /\ tick = None
    /\ next_to_yield
    /\ UNCHANGED <<_limits, _dkp, now, args, ret, closed_dkp, updated_at>>

\* await channel.send(...) has returned: the suspended generator goes on.
TickResume ==
    /\ tick # None
    /\ IF tick[1].fn = "run"
       THEN LET r == run_resumed(_channels, tick[1], _dkp, _limits, now)
            IN  /\ _channels' = r.channels /\ out' = r.out /\ tick' = r.tick
                /\ UNCHANGED _pending_items
       ELSE next_to_yield
    /\ UNCHANGED <<_limits, _dkp, now, args, ret, closed_dkp, updated_at>>

TickChannels == {"c1", "c2"}

InitTick == Auctioneer(TickChannels, Limits) /\ args = None /\ ret = None

\* The tick, the slash commands and the clock.  A slash command is handled
\* whenever the event loop is free: also while the tick awaits a send.
NextTick ==
    \/ TickRun
    \/ TickNext
    \/ TickResume
    \/ \E item \in Items : Len(_pending_items) < MaxPending /\ add(item)
    \/ update_dkp([b \in {"ann"} |-> [name |-> b, current |-> 10]])
    \/ \E channel \in TickChannels : InBound(channel) /\ bid(channel, "ann", 10, 0, "Raider")
    \/ \E channel \in TickChannels : stop(channel)
    \/ \E channel \in TickChannels : delete(channel)
    \/ AdvanceClock

SpecTick == InitTick /\ [][NextTick]_vars

\* C22: run and next go from their first step to their end with nothing in
\* between: while one of them stands at a yield, no bid, stop, accept, reopen,
\* restart or delete takes effect on any channel.
C22_TickRunsToCompletion ==
    [][tick # None =>
         \A c \in DOMAIN _channels :
            ~(/\ _channels' # _channels
              /\ \/ stop(c) \/ reopen(c) \/ restart(c) \/ delete(c)
                 \/ \E force \in BOOLEAN : accept(c, force)
                 \/ bid(c, "ann", 10, 0, "Raider"))
      ]_vars

\* run has yielded the update of one channel and stands at that yield with
\* the other channel still to visit; that channel's auction, as old and as due
\* for its first update, has been stopped meanwhile.
C22_Witness ==
    /\ tick # None
    /\ tick[1].fn = "run" /\ tick[1].stage = "updated" /\ tick[1].todo # <<>>
    /\ LET c == tick[1].at
           d == tick[1].todo[1]
       IN  /\ _channels[c] # None /\ _channels[d] # None
           /\ _channels[c][1].last_updated = Some(now)
           /\ _channels[d][1].status = "Stopped"
           /\ _channels[d][1].last_updated = None
           /\ _channels[d][1].started_at = _channels[c][1].started_at
           /\ Len(out) = 2
           /\ out[1] = AuctionMessage(d, <<"Auction has been stopped">>, TRUE)

-----------------------------------------------------------------------------
(* More properties of determine_results, called directly.                  *)

\* C23: determine_results walks the groups of equal key from the highest key
\* down.  A group no larger than the need that is left is awarded whole, the
\* first group larger than it is tied whole and nothing below it is looked at:
\* every winner ranks above every tied bid, the tied bids are of one key and
\* more than the need that was left, every bid that is neither awarded nor tied
\* nor a repeat of an awarded or tied (bidder, id) ranks below them all, no two
\* bids of winners and tied share (bidder, id), and when the bids run out with
\* no tie the unmet need is returned as rolled.
C23_ResolveGroups ==
    ret # None =>
        LET r == ret[1].results
            a == args[1]
            quantity == a.auction.item.quantity
            K(b) == _bid_key(a.dkp, a.member_treshold, b)
            Id(b) == <<b.bidder, b.id>>
            placed == r.winners \o r.tied
            passed == {b \in Range(a.auction.bids) :
                         \A x \in Range(placed) : Id(x) # Id(b)}
        IN  /\ Range(placed) \subseteq Range(a.auction.bids)
            /\ \A i, j \in 1..Len(placed) : i # j => Id(placed[i]) # Id(placed[j])
            /\ \A i, j \in 1..Len(r.winners) :
                  i < j => ~KeyGreater(K(r.winners[j]), K(r.winners[i]))
            /\ \A t1, t2 \in Range(r.tied) : K(t1) = K(t2)
            /\ \A w \in Range(r.winners), t \in Range(r.tied) : KeyGreater(K(w), K(t))
            /\ \A b \in passed, x \in Range(placed) : KeyGreater(K(x), K(b))
            /\ \A b \in Range(a.auction.bids), x \in Range(placed) :
                  Id(b) = Id(x) => ~KeyGreater(K(b), K(x))
            /\ IF r.tied # <<>>
               THEN /\ Len(r.winners) < quantity
                    /\ Len(r.tied) > quantity - Len(r.winners)
               ELSE /\ Len(r.winners) <= quantity
                    /\ r.rolled = quantity - Len(r.winners)
                    /\ r.rolled > 0 => passed = {}

\* determine_results has been given one item and three bids of three
\* (bidder, id): the two highest are of one key and are tied, the third ranks
\* below them and is neither awarded nor tied.
C23_Witness ==
    /\ ret # None
    /\ args[1].auction.item.quantity = 1
    /\ Len(args[1].auction.bids) = 3
    /\ Len(ret[1].results.tied) = 2
    /\ ret[1].results.winners = <<>>
    /\ \E b \in Range(args[1].auction.bids) :
          /\ b \notin Range(ret[1].results.tied)
          /\ \A t \in Range(ret[1].results.tied) :
                <<t.bidder, t.id>> # <<b.bidder, b.id>>

-----------------------------------------------------------------------------
(* More properties of time_left and needs_update, read directly.           *)

\* C25: time_left is max(0, end - now), where end is started_at + 90, raised
\* to last_bid + 30 when there is a bid, raised to last_updated + 15 when there
\* is an update and no bid or the update is later than the last bid, and in
\* every other case (no update, or an update not later than the last bid, the
\* two being equal included) raised to now + 15.
C25_TimeLeftRules ==
    ret # None =>
        LET auction == args[1]
            Max(x, y) == IF x > y THEN x ELSE y
            end0 == auction.started_at + 90
            end1 == IF auction.last_bid # None
                    THEN Max(end0, auction.last_bid[1] + 30) ELSE end0
            end2 == IF /\ auction.last_updated # None
                       /\ (auction.last_bid = None
                           \/ auction.last_updated[1] > auction.last_bid[1])
                    THEN Max(end1, auction.last_updated[1] + 15)
                    ELSE Max(end1, now + 15)
        IN  ret[1] = Max(0, end2 - now)

\* time_left has been read as 0 on an auction whose last update and last bid
\* carry the same stamp, less than 15 seconds after the 90 seconds and the 30
\* seconds after the bid have passed.
C25_Witness ==
    /\ ret = Some(0)
    /\ args # None
    /\ args[1].last_bid # None /\ args[1].last_updated = args[1].last_bid
    /\ now = args[1].started_at + 90
    /\ now = args[1].last_bid[1] + 30


\* needs_update read at one time after another on an auction of any status
\* whose stamps are drawn from bounded sets: no stamp is before started_at and
\* no reading is before a stamp.
NeedsUpdateArgs ==
    {[RunningAuction(AuctionItem("sword", 1, "officer"), <<"c1", 0>>, started_at)
        EXCEPT !.status = status, !.last_bid = last_bid, !.last_updated = last_updated] :
        started_at \in {0, 30},
        status \in Status,
        last_bid \in {None} \cup {Some(t) : t \in ClockPoints},
        last_updated \in {None} \cup {Some(t) : t \in ClockPoints}}

InitNeedsUpdate ==
    /\ Auctioneer({}, Limits)
    /\ args \in {Some(a) : a \in NeedsUpdateArgs}
    /\ args[1].last_bid # None => args[1].last_bid[1] >= args[1].started_at
    /\ args[1].last_updated # None => args[1].last_updated[1] >= args[1].started_at
    /\ ret = None

\* auction.needs_update, read at a time t.
CallNeedsUpdate ==
    /\ args # None
    /\ \E t \in ClockPoints :
          /\ t > now
          /\ t >= args[1].started_at
          /\ args[1].last_bid # None => t >= args[1].last_bid[1]
          /\ args[1].last_updated # None => t >= args[1].last_updated[1]
          /\ now' = t
          /\ ret' = Some(needs_update(args[1], t))
    /\ UNCHANGED <<_channels, _pending_items, _limits, _dkp, out, args, tick, closed_dkp, updated_at>>

SpecNeedsUpdate == InitNeedsUpdate /\ [][CallNeedsUpdate]_vars

\* C26, as stated: needs_update is true exactly when the auction is Running,
\* started at least 30 seconds ago, has no bid or its last bid at least 10
\* seconds ago, and has no update or its last update at least 30 seconds ago.
C26_NeedsUpdateAtLeast ==
    ret # None =>
        LET auction == args[1]
        IN  ret[1] =
              (/\ auction.status = "Running"
               /\ now - auction.started_at >= 30
               /\ (auction.last_bid = None \/ now - auction.last_bid[1] >= 10)
               /\ (auction.last_updated = None \/ now - auction.last_updated[1] >= 30))

\* C26, amended: needs_update is true exactly when the auction is Running,
\* started more than 30 seconds ago, has no bid or its last bid more than 10
\* seconds ago, and has no update or its last update more than 30 seconds ago;
\* it is false for every Stopped and every Finished auction.
C26_NeedsUpdateMoreThan ==
    ret # None =>
        LET auction == args[1]
        IN  /\ ret[1] =
                 (/\ auction.status = "Running"
                  /\ now - auction.started_at > 30
                  /\ (auction.last_bid = None \/ now - auction.last_bid[1] > 10)
                  /\ (auction.last_updated = None \/ now - auction.last_updated[1] > 30))
            /\ auction.status \in {"Stopped", "Finished"} => ret[1] = FALSE

\* needs_update has been read as false on a Running auction with no bid and
\* no update exactly 30 seconds after its start.
C26_Witness ==
    /\ ret = Some(FALSE)
    /\ args # None
    /\ args[1].status = "Running"
    /\ args[1].last_bid = None /\ args[1].last_updated = None
    /\ now - args[1].started_at = 30

-----------------------------------------------------------------------------
(* One channel and one bidder under a clock that is read every FineStep     *)
(* seconds, so that bids, updates and closings fall at many distances.      *)

FineStep == 15
FineMaxTime == 135

AdvanceFine ==
    /\ now + FineStep <= FineMaxTime
    /\ now' = now + FineStep
    /\ UNCHANGED <<_channels, _pending_items, _limits, _dkp, out, args, ret, tick, closed_dkp, updated_at>>

InitFine == Auctioneer({"c1"}, Limits) /\ args = None /\ ret = None

NextFine ==
    \/ \E item \in Items : Len(_pending_items) < MaxPending /\ add(item)
    \/ update_dkp([b \in {"ann"} |-> [name |-> b, current |-> 10]])
    \/ run
    \/ next
    \/ InBound("c1") /\ bid("c1", "ann", 10, 0, "Raider")
    \/ stop("c1")
    \/ reopen("c1")
    \/ restart("c1")
    \/ AdvanceFine

SpecFine == InitFine /\ [][NextFine]_vars

\* C27: an auction turns Finished only at a time that is at least 90 seconds
\* after its started_at, at least 30 seconds after its last bid and at least
\* 15 seconds after its last update; and a bid accepted on a Running auction
\* whose time_left had reached 0 leaves it Running with a time_left of at
\* least 30 seconds.
C27_ClosingTimes ==
    [][\A c \in DOMAIN _channels :
          /\ (/\ _channels'[c] # None
              /\ _channels'[c][1].status = "Finished"
              /\ (_channels[c] = None \/ _channels[c][1].status # "Finished"))
             => LET auction == _channels'[c][1]
                IN  /\ now' >= auction.started_at + 90
                    /\ auction.last_bid # None => now' >= auction.last_bid[1] + 30
                    /\ auction.last_updated # None =>
                          now' >= auction.last_updated[1] + 15
          /\ (/\ _channels[c] # None /\ _channels'[c] # None
              /\ _channels[c][1].status = "Running"
              /\ time_left(_channels[c][1], now) = 0
              /\ _channels'[c][1].oid = _channels[c][1].oid
              /\ _channels'[c][1].last_bid # _channels[c][1].last_bid)
             => /\ _channels'[c][1].status = "Running"
                /\ _channels'[c][1].last_bid = Some(now)
                /\ time_left(_channels'[c][1], now') >= 30
      ]_vars

\* An auction started at 0 and updated at 45 had no time left at 90; a bid was
\* accepted then, an update followed at 105, and run has closed it at 120: 30
\* seconds after the bid and 15 seconds after the update.
C27_Witness ==
    /\ _channels["c1"] # None
    /\ _channels["c1"][1].status = "Finished"
    /\ _channels["c1"][1].started_at = 0
    /\ _channels["c1"][1].last_bid = Some(90)
    /\ _channels["c1"][1].last_updated = Some(105)
    /\ now = 120

-----------------------------------------------------------------------------
(* The Auctioneer under the task loop of the cog: Auction._run_auction runs *)
(* every LoopSeconds seconds, and the slash commands are handled in        *)
(* between, up to the reading LoopQuiet of the clock.  An iteration is one *)
(* step here; its suspensions are the matter of SpecTick.                  *)

\* @tasks.loop(seconds=5)
LoopSeconds == 5
LoopQuiet == 10
LoopMaxTime == 120

\* Auctioneer.has_running_auctions
has_running_auctions(channels) == \E c \in DOMAIN channels : channels[c] # None

\* What await self.dkp.get_dkp() returns.
LoopSnapshot == [b \in {"ann"} |-> [name |-> b, current |-> 10]]

\* One iteration of the loop, LoopSeconds after the one before: update_dkp if
\* there is an auction, then all of run, then all of next.
_run_auction ==
    /\ now + LoopSeconds <= LoopMaxTime
    /\ LET t == now + LoopSeconds
           dkp == IF has_running_auctions(_channels) THEN LoopSnapshot ELSE _dkp
           turn(c) == run_channel(c, _channels[c], dkp, _limits, t)
           order == ChannelOrder(_channels)
           ran == [c \in DOMAIN _channels |-> turn(c).slot]
       IN  \E end \in next_loop(ran, _pending_items, <<>>, t) :
              /\ now' = t
              /\ _dkp' = dkp
              /\ _channels' = end.channels
              /\ _pending_items' = end.pending
              /\ out' = Flatten([i \in DOMAIN order |-> turn(order[i]).out]) \o end.out
    /\ UNCHANGED <<_limits, args, ret, tick, closed_dkp, updated_at>>

InitLoop == Auctioneer({"c1"}, Limits) /\ args = None /\ ret = None

NextLoop ==
    \/ _run_auction
    \/ \E item \in Items :
          now <= LoopQuiet /\ Len(_pending_items) < MaxPending /\ add(item)
    \/ now <= LoopQuiet /\ InBound("c1") /\ bid("c1", "ann", 10, 0, "Raider")
    \/ now <= LoopQuiet /\ stop("c1")
    \/ now <= LoopQuiet /\ reopen("c1")
    \/ now <= LoopQuiet /\ restart("c1")
    \/ now <= LoopQuiet /\ delete("c1")

SpecLoop == InitLoop /\ [][NextLoop]_vars

\* The loop goes on: an iteration that is due is run.
SpecLoopLive == SpecLoop /\ WF_vars(_run_auction)

-----------------------------------------------------------------------------
(* One channel and one bidder whose bids lie below, within and above the    *)
(* limits and below and above the balance, under two snapshots.             *)

InsertAmounts == {4, 5, 20, 25}

InsertSnapshots ==
    { [b \in {"ann"} |-> [name |-> b, current |-> 5]],
      [b \in {"ann"} |-> [name |-> b, current |-> 25]] }

NextInsert == Calls({"ann"}, InsertAmounts, InsertSnapshots)

SpecInsert == Init /\ [][NextInsert]_vars

\* C29: a bid enters the bid set of an auction only while the auction is
\* Running, with minimum <= amount <= maximum and amount <= the balance of the
\* bidder in the snapshot held at that step, and an auction newly put into a
\* channel holds no bid; the bid set of a Stopped or Finished auction stays as
\* it is for as long as the channel holds that auction.
C29_BidsInserted ==
    [][\A c \in DOMAIN _channels :
          _channels'[c] # None =>
             LET after == _channels'[c][1]
                 same == _channels[c] # None /\ _channels[c][1].oid = after.oid
                 held == IF same THEN Range(_channels[c][1].bids) ELSE {}
             IN  /\ \A b \in Range(after.bids) \ held :
                       /\ same
                       /\ _channels[c][1].status = "Running"
                       /\ _limits.minimum <= b.bid /\ b.bid <= _limits.maximum
                       /\ b.bidder \in DOMAIN _dkp
                       /\ b.bid <= _dkp[b.bidder].current
                 /\ (same /\ _channels[c][1].status \in {"Stopped", "Finished"})
                       => after.bids = _channels[c][1].bids
      ]_vars

\* A Finished auction holds the bids of 5 and of 20 of a bidder whose balance
\* in the snapshot now held is 5.
C29_Witness ==
    /\ _channels["c1"] # None
    /\ _channels["c1"][1].status = "Finished"
    /\ {b.bid : b \in Range(_channels["c1"][1].bids)} = {5, 20}
    /\ _dkp = [b \in {"ann"} |-> [name |-> b, current |-> 5]]

-----------------------------------------------------------------------------
(* One channel and two bidders of equal bids, whose order in the results is *)
(* a matter of their balances, under snapshots that differ in the balance   *)
(* of a bidder and snapshots that differ elsewhere only.  closed_dkp notes  *)
(* the snapshot that run closed the auction under.                          *)

AcceptSnapshots ==
    { [b \in {"ann", "bob"} |-> [name |-> b, current |-> 10]],
      [b \in {"ann", "bob"} |-> [name |-> b, current |-> IF b = "ann" THEN 20 ELSE 10]],
      [b \in {"ann", "bob", "cat"} |-> [name |-> b, current |-> 10]] }

\* run, with the snapshot held noted for every auction it closes.
run_noted ==
    LET turn(c) == run_channel(c, _channels[c], _dkp, _limits, now)
        order == ChannelOrder(_channels)
        closes(c) == /\ _channels[c] # None
                     /\ _channels[c][1].status # "Finished"
                     /\ turn(c).slot[1].status = "Finished"
    IN  /\ _channels' = [c \in DOMAIN _channels |-> turn(c).slot]
        /\ out' = Flatten([i \in DOMAIN order |-> turn(order[i]).out])
        /\ closed_dkp' = [c \in DOMAIN _channels |->
                             IF closes(c) THEN Some(_dkp) ELSE closed_dkp[c]]
        /\ UNCHANGED <<_pending_items, _limits, _dkp, now, args, ret, tick, updated_at>>

NextAccept ==
    \/ \E item \in Items : Len(_pending_items) < MaxPending /\ add(item)
    \/ \E dkp \in AcceptSnapshots : update_dkp(dkp)
    \/ run_noted
    \/ next
    \/ \E bidder \in Bidders : InBound("c1") /\ bid("c1", bidder, 10, 0, "Raider")
    \/ \E force \in BOOLEAN : accept("c1", force)
    \/ reopen("c1")
    \/ AdvanceClock

SpecAccept == Init /\ [][NextAccept]_vars

\* C30: when every bidder of a Finished auction has in the snapshot now held
\* the balance it had in the snapshot that run closed the auction under,
\* accept without force is not refused: the auction is accepted.
C30_AcceptNotRefused ==
    [][\A c \in DOMAIN _channels :
          (/\ accept(c, FALSE)
           /\ _channels[c] # None
           /\ _channels[c][1].status = "Finished"
           /\ closed_dkp[c] # None
           /\ \A b \in Range(_channels[c][1].bids) :
                 DkpGet(_dkp, b.bidder).current
                    = DkpGet(closed_dkp[c][1], b.bidder).current)
          => /\ Len(out') = 2
             /\ out'[1] = AuctionMessage(c, <<"Auction Accepted">>, TRUE)
      ]_vars

\* A Finished auction with the bids of both bidders, closed under a snapshot
\* other than the one now held but with the same balances for both, has been
\* accepted.
C30_Witness ==
    /\ _channels["c1"] # None
    /\ _channels["c1"][1].status = "Finished"
    /\ {b.bidder : b \in Range(_channels["c1"][1].bids)} = {"ann", "bob"}
    /\ closed_dkp["c1"] # None
    /\ closed_dkp["c1"][1] # _dkp
    /\ \A b \in {"ann", "bob"} :
          DkpGet(_dkp, b).current = DkpGet(closed_dkp["c1"][1], b).current
    /\ Len(out) = 2
    /\ out[1] = AuctionMessage("c1", <<"Auction Accepted">>, TRUE)

-----------------------------------------------------------------------------
(* One channel and one bidder under the clock read every FineStep seconds,  *)
(* with every operation that ends an auction or puts a new one in its       *)
(* place.  updated_at notes when run last posted an update in the channel.  *)

\* run, with the time noted for every channel it posts an update in.
run_timed ==
    LET turn(c) == run_channel(c, _channels[c], _dkp, _limits, now)
        order == ChannelOrder(_channels)
        updates(c) == MessagesSaying(turn(c).out, "This is an update for") # <<>>
    IN  /\ _channels' = [c \in DOMAIN _channels |-> turn(c).slot]
        /\ out' = Flatten([i \in DOMAIN order |-> turn(order[i]).out])
        /\ updated_at' = [c \in DOMAIN _channels |->
                             IF updates(c) THEN Some(now) ELSE updated_at[c]]
        /\ UNCHANGED <<_pending_items, _limits, _dkp, now, args, ret, tick, closed_dkp>>

NextUpdates ==
    \/ \E item \in Items : Len(_pending_items) < MaxPending /\ add(item)
    \/ update_dkp([b \in {"ann"} |-> [name |-> b, current |-> 10]])
    \/ run_timed
    \/ next
    \/ InBound("c1") /\ bid("c1", "ann", 10, 0, "Raider")
    \/ stop("c1")
    \/ reopen("c1")
    \/ restart("c1")
    \/ delete("c1")
    \/ AdvanceFine

SpecUpdates == InitFine /\ [][NextUpdates]_vars

\* C31: when run posts an update in a channel, the update before it in that
\* channel, whether of this auction or of one that was there before, is more
\* than 30 seconds old, the auction's started_at (its start, restart or last
\* reopen) is more than 30 seconds old and its last bid, if any, more than 10.
C31_UpdatesApart ==
    [][\A c \in DOMAIN _channels :
          (/\ run_timed
           /\ MessagesSaying(MessagesFor(out', c), "This is an update for") # <<>>)
          => /\ updated_at[c] # None => now' - updated_at[c][1] > 30
             /\ _channels[c] # None
             /\ now' - _channels[c][1].started_at > 30
             /\ _channels[c][1].last_bid # None =>
                   now' - _channels[c][1].last_bid[1] > 10
      ]_vars

\* run has just posted an update for an auction that holds a bid and that was
\* started, restarted or reopened at or after the time 45, the earliest time
\* of an update in the channel.
C31_Witness ==
    /\ _channels["c1"] # None
    /\ _channels["c1"][1].status = "Running"
    /\ _channels["c1"][1].started_at >= 45
    /\ _channels["c1"][1].last_bid # None
    /\ _channels["c1"][1].last_updated = Some(now)
    /\ updated_at["c1"] = Some(now)
    /\ MessagesSaying(out, "This is an update for") # <<>>

====
